---- MODULE Spec2Model ----
(***************************************************************************)
(* Model of the TrueHD access-unit Extractor (truehd/src/process/extract.rs)*)
(* at byte level: the ring buffer, the sync-lock state machine, the        *)
(* major-sync CRC-16, the header nibble parity and the SMPTE timestamp.    *)
(***************************************************************************)
EXTENDS Integers, Sequences, FiniteSets, TLC

-----------------------------------------------------------------------------
(* Bounds of the model                                                     *)

\* pushes that may be outstanding (io_counter) before the caller iterates
MaxPending == 2
\* frames a run may yield before the caller stops iterating
MaxFrames == 5
\* largest partial chunk handed to push_bytes (a push of the whole rest is
\* always possible as well)
MaxChunk == 16
\* calls of Parser::parse in one behaviour
MaxParseCalls == 2
\* calls of HiresOutputTimingState::update in one run, and the serial field
\* values (timing) the runs stay below
MaxTimingCalls == 21
MaxTiming == 4
\* calls of decode_presentation() the caller makes
MaxDecodeCalls == 2
\* extended_substream_info values tried: two bits are read, the byte has more
MaxExtended == 7
\* chunks the decoder thread reads, decoded access units it sends
MaxChunks == 2
MaxSent == 3
\* frames the Extractor yields from its pool
MaxPoolFrames == 7

-----------------------------------------------------------------------------
(* Option<T> as a sequence of at most one element                          *)

None == << >>
Some(x) == <<x>>
IsSome(o) == Len(o) = 1
Unwrap(o) == o[1]

-----------------------------------------------------------------------------
(* u8 / u16 arithmetic                                                     *)

RECURSIVE XorBits(_, _, _)
XorBits(a, b, n) ==
    IF n = 0 THEN 0
    ELSE ((a + b) % 2) + 2 * XorBits(a \div 2, b \div 2, n - 1)

RECURSIVE AndBits(_, _, _)
AndBits(a, b, n) ==
    IF n = 0 THEN 0
    ELSE ((a % 2) * (b % 2)) + 2 * AndBits(a \div 2, b \div 2, n - 1)

XorTab == [a \in 0..255 |-> [b \in 0..255 |-> XorBits(a, b, 8)]]

Xor8(a, b) == XorTab[a][b]
And8(a, b) == AndBits(a, b, 8)
Xor16(a, b) == 256 * Xor8(a \div 256, b \div 256) + Xor8(a % 256, b % 256)

\* u16::from_be_bytes([hi, lo])
from_be_bytes(hi, lo) == 256 * hi + lo

\* VecDeque::get(i), 0-based
get(buf, i) == IF i < Len(buf) THEN Some(buf[i + 1]) ELSE None
\* buffer[i], 0-based
At(buf, i) == buf[i + 1]
\* drain(..cnt) leaves the tail
Tail_(buf, cnt) == SubSeq(buf, cnt + 1, Len(buf))
\* the first cnt bytes
Head_(buf, cnt) == SubSeq(buf, 1, cnt)

-----------------------------------------------------------------------------
(* utils/crc.rs : CRC-16 of the major sync info                            *)

CRC_MAJOR_SYNC_INFO_ALG == [poly |-> 45, init |-> 0]

RECURSIVE crc16_loop(_, _, _)
crc16_loop(poly, value, len) ==
    IF len = 0 THEN value
    ELSE crc16_loop(poly,
                    Xor16((value * 2) % 65536, ((value \div 32768) % 2) * poly),
                    len - 1)

crc16(poly, value, len) == crc16_loop(poly, (value * 256) % 65536, len)

crc16_table == [i \in 0..255 |-> crc16(CRC_MAJOR_SYNC_INFO_ALG.poly, i, 8)]

\* Crc16::update; a crc is never negative, and naming it in the test has the
\* running value computed at every step
RECURSIVE Crc16_update(_, _, _)
Crc16_update(crc, bytes, i) ==
    IF crc >= 0 /\ i <= Len(bytes)
    THEN Crc16_update(
            Xor16(Xor16(crc16_table[(crc \div 256) % 256], (crc * 256) % 65536),
                  bytes[i]),
            bytes, i + 1)
    ELSE crc

crc16_major_sync_info(data) == Crc16_update(CRC_MAJOR_SYNC_INFO_ALG.init, data, 1)

-----------------------------------------------------------------------------
(* structs/timestamp.rs                                                    *)

parse_bcd16(value) ==
    LET a == value \div 4096
        b == (value \div 256) % 16
        c == (value \div 16) % 16
        d == value % 16
    IN IF a > 9 \/ b > 9 \/ c > 9 \/ d > 9 THEN None
       ELSE Some(1000 * a + 100 * b + 10 * c + d)

Framerate_from(value) ==
    IF value \in 1..8
    THEN [rate |-> <<"R23_976", "R24", "R25", "R29_97", "R30", "R50",
                     "R59_94", "R60">>[value], code |-> value]
    ELSE [rate |-> "Invalid", code |-> value]

Timestamp_from_bytes(b) ==
    IF Len(b) < 16 THEN None
    ELSE IF At(b, 0) # 1 \/ At(b, 1) # 16 \/ At(b, 14) # 128 \/ At(b, 15) # 0
    THEN None
    ELSE LET word7 == from_be_bytes(At(b, 12), At(b, 13))
             hours == parse_bcd16(from_be_bytes(At(b, 2), At(b, 3)))
             minutes == parse_bcd16(from_be_bytes(At(b, 4), At(b, 5)))
             seconds == parse_bcd16(from_be_bytes(At(b, 6), At(b, 7)))
             frames_ == parse_bcd16(from_be_bytes(At(b, 8), At(b, 9)))
         IN IF ~IsSome(hours) \/ ~IsSome(minutes) \/ ~IsSome(seconds)
               \/ ~IsSome(frames_)
            THEN None
            ELSE Some([hours |-> Unwrap(hours),
                       minutes |-> Unwrap(minutes),
                       seconds |-> Unwrap(seconds),
                       frames |-> Unwrap(frames_),
                       samples |-> from_be_bytes(At(b, 10), At(b, 11)),
                       reserved1 |-> word7 \div 64,
                       framerate |-> Framerate_from((word7 \div 4) % 16),
                       reserved2 |-> And8(word7 % 256, 2) # 0,
                       dropframe |-> And8(word7 % 256, 1) # 0])

-----------------------------------------------------------------------------
(* utils/errors.rs : log_or_err!                                           *)

\* log::Level in increasing verbosity; Level::Error is the smallest
Levels == <<"Error", "Warn", "Info", "Debug", "Trace">>
LevelRank(l) == CHOOSE i \in DOMAIN Levels : Levels[i] = l

\* TRUE when the macro returns Err($err) from the enclosing function,
\* FALSE when it only logs and falls through
log_or_err(fail_level, level) == LevelRank(level) <= LevelRank(fail_level)

-----------------------------------------------------------------------------
(* process/extract.rs : Extractor                                          *)

\* Extractor::default()
Extractor_default ==
    [buffer |-> << >>,
     timestamp |-> None,
     inited |-> FALSE,
     locked |-> FALSE,
     io_counter |-> 0,
     substreams |-> 0,
     error_count |-> 0,
     frames_processed |-> 0,
     fail_on_warning |-> FALSE]

\* the level the macro compares against; Level::Error passes for either
Extractor_fail_level(self) == IF self.fail_on_warning THEN "Warn" ELSE "Error"

push_bytes(self, data) ==
    [self EXCEPT !.buffer = @ \o data, !.io_counter = @ + 1]

consume_front(self, cnt) == [self EXCEPT !.buffer = Tail_(@, cnt)]

\* the length taken as a byte count: the `<< 1` from 16-bit words is missing
access_unit_len_words(self) ==
    LET b0 == get(self.buffer, 0)
        b1 == get(self.buffer, 1)
    IN IF ~IsSome(b0) \/ ~IsSome(b1) THEN None
       ELSE Some(from_be_bytes(Unwrap(b0), Unwrap(b1)) % 4096)

access_unit_len(self) ==
    LET b0 == get(self.buffer, 0)
        b1 == get(self.buffer, 1)
    IN IF ~IsSome(b0) \/ ~IsSome(b1) THEN None
       ELSE Some((from_be_bytes(Unwrap(b0), Unwrap(b1)) % 4096) * 2)

major_sync_info_len(self) ==
    LET b29 == get(self.buffer, 29)
        b30 == get(self.buffer, 30)
    IN IF ~IsSome(b29) THEN None
       ELSE IF And8(Unwrap(b29), 1) = 0 THEN Some(26)
       ELSE IF ~IsSome(b30) THEN None
       ELSE Some(28 + And8(Unwrap(b30) \div 8, 30))

\* Err(InsufficientData) out of resync()
insufficient(self) ==
    [self |-> [self EXCEPT !.io_counter = @ - 1], res |-> "InsufficientData"]

\* the sync search reporting the buffer index of 0xF8 instead of the
\* enumerate() index of the range that starts at 4
sync_scan_absolute(buf, search_range) ==
    LET n == search_range - 4
        hit(i) == /\ At(buf, 4 + i) = 248
                  /\ At(buf, 5 + i) = 114
                  /\ At(buf, 6 + i) = 111
                  /\ At(buf, 7 + i) \in {186, 187}
        hits == {i \in 0..(n - 4) : hit(i)}
    IN IF hits # {}
       THEN [state |-> 4,
             offset |-> 4 + (CHOOSE i \in hits : \A j \in hits : i <= j)]
       ELSE [state |-> 0, offset |-> 0]

\* the byte-wise sync search of resync() over buffer.range(4..search_range),
\* i being the enumerate() index.  The automaton restarts on every 0xF8 and
\* the sync word holds 0xF8 only in front, so it stops (state 4) at the first
\* place where F8 72 6F BA|BB lies entirely inside the range, offset being
\* the index of its 0xF8; otherwise it ends in the state of the longest
\* sync prefix the range ends with.
sync_scan(buf, search_range) ==
    LET n == search_range - 4
        hit(i) == /\ At(buf, 4 + i) = 248
                  /\ At(buf, 5 + i) = 114
                  /\ At(buf, 6 + i) = 111
                  /\ At(buf, 7 + i) \in {186, 187}
        hits == {i \in 0..(n - 4) : hit(i)}
        last_f8 == {i \in 0..(n - 1) : At(buf, 4 + i) = 248}
        tail_state ==
            IF n >= 1 /\ At(buf, 4 + n - 1) = 248 THEN 1
            ELSE IF n >= 2 /\ At(buf, 4 + n - 2) = 248 /\ At(buf, 4 + n - 1) = 114
            THEN 2
            ELSE IF n >= 3 /\ At(buf, 4 + n - 3) = 248 /\ At(buf, 4 + n - 2) = 114
                    /\ At(buf, 4 + n - 1) = 111
            THEN 3
            ELSE 0
    IN IF hits # {}
       THEN [state |-> 4,
             offset |-> CHOOSE i \in hits : \A j \in hits : i <= j]
       ELSE [state |-> tail_state,
             offset |-> IF last_f8 = {} THEN 0
                        ELSE CHOOSE i \in last_f8 : \A j \in last_f8 : j <= i]

\* "Try only once": the timestamp step of resync() once a sync word is found
resync_timestamp(self, offset) ==
    IF ~self.inited /\ offset >= 16
    THEN LET s1 == consume_front(self, offset - 16)
         IN [s1 EXCEPT !.timestamp = Timestamp_from_bytes(Head_(s1.buffer, 16)),
                       !.buffer = Tail_(@, 16)]
    ELSE [consume_front(self, offset) EXCEPT !.timestamp = None]

\* resync() from the CRC-16 test on: a mismatch consumes the candidate and
\* goes through log_or_err!, a match locks
RECURSIVE resync_loop(_)
resync_crc(s1, msil, aul) ==
    LET access_unit_bytes == Head_(s1.buffer, aul)
        crc == from_be_bytes(At(access_unit_bytes, 4 + msil),
                             At(access_unit_bytes, 5 + msil))
    IN
    IF crc # crc16_major_sync_info(SubSeq(access_unit_bytes, 5, 4 + msil))
    THEN IF log_or_err(Extractor_fail_level(s1), "Error")
         THEN [self |-> consume_front(s1, aul), res |-> "ParityCheckFailed"]
         ELSE resync_loop(consume_front(s1, aul))
    ELSE [self |-> [s1 EXCEPT !.locked = TRUE,
                              !.substreams = At(s1.buffer, 20) \div 16],
          res |-> "Ok"]

\* resync() once the buffer starts at the candidate: the length tests
resync_candidate(s1, msil, aul) ==
    IF ~IsSome(msil) THEN insufficient(s1)
    ELSE IF Len(s1.buffer) < 4 + Unwrap(msil) THEN insufficient(s1)
    ELSE IF ~IsSome(aul) THEN insufficient(s1)
    ELSE IF Len(s1.buffer) < Unwrap(aul) \/ Unwrap(aul) <= Unwrap(msil) + 6
    THEN insufficient(s1)
    ELSE resync_crc(s1, Unwrap(msil), Unwrap(aul))

\* resync() once the search is over: give up, or cut the buffer at the sync
resync_found(self, search_range, sc) ==
    IF sc.state # 4 THEN insufficient(consume_front(self, search_range))
    ELSE resync_candidate(
            [resync_timestamp(self, sc.offset) EXCEPT !.inited = TRUE],
            major_sync_info_len(resync_timestamp(self, sc.offset)),
            access_unit_len(resync_timestamp(self, sc.offset)))

resync_loop(self) ==
    LET trailing_bytes == IF self.inited THEN 4 ELSE 16
        search_range == IF Len(self.buffer) >= trailing_bytes
                        THEN Len(self.buffer) - trailing_bytes ELSE 0
    IN
    IF search_range < 4 THEN insufficient(self)
    ELSE resync_found(self, search_range, sync_scan(self.buffer, search_range))

resync(self) == resync_loop([self EXCEPT !.locked = FALSE])

\* Some(Err(InsufficientData)) out of next()
iter_insufficient(self) ==
    [self |-> [self EXCEPT !.io_counter = @ - 1],
     tag |-> "InsufficientData", frame |-> None]

\* the 'inner loop of next(): XOR of the 4 header bytes and of every
\* directory entry, stepping over the major sync region (the skip steps only
\* advance offset and are taken in one stride)
RECURSIVE parity_walk(_, _, _, _, _, _, _)
parity_walk(buf, pre, skip, post, substreams, parity, offset) ==
    IF parity >= 0 /\ offset >= 0 /\ pre > 0
    THEN IF ~IsSome(get(buf, offset)) THEN [short |-> TRUE, parity |-> parity]
         ELSE parity_walk(buf, pre - 1, skip, post, substreams,
                          Xor8(parity, At(buf, offset)), offset + 1)
    ELSE IF skip > 0
    THEN parity_walk(buf, pre, 0, post, substreams, parity, offset + skip)
    ELSE IF post > 0
    THEN IF ~IsSome(get(buf, offset)) THEN [short |-> TRUE, parity |-> parity]
         ELSE parity_walk(buf, pre, skip, post - 1, substreams,
                          Xor8(parity, At(buf, offset)), offset + 1)
    ELSE IF substreams > 0
    THEN IF ~IsSome(get(buf, offset)) THEN [short |-> TRUE, parity |-> parity]
         ELSE parity_walk(buf, pre, skip,
                          post + 2 + (IF At(buf, offset) \div 128 # 0 THEN 2 ELSE 0),
                          substreams - 1, parity, offset)
    ELSE [short |-> FALSE, parity |-> parity]

\* ((parity >> 4) ^ parity) & 0xF
nibble_fold(parity) == And8(Xor8(parity \div 16, parity), 15)

\* the test with `!=` binding before `&`: the mask is the truth value of
\* 0xF != 0xF, and the test never fails
parity_check_failed_precedence(parity) ==
    And8(Xor8(parity \div 16, parity), IF 15 # 15 THEN 1 ELSE 0) # 0

\* `((parity >> 4) ^ parity) & 0xF != 0xF` with `&` binding before `!=`
parity_check_failed(parity) == nibble_fold(parity) # 15

\* Frame { timestamp, data }
Frame(timestamp, data) == [timestamp |-> timestamp, data |-> data]

\* leaving the 'locked block: `break 'locked Err(err)` towards the one-byte
\* resync, or a `return` of the item r
locked_break(self, err) ==
    [brk |-> TRUE, err |-> err, self |-> self, tag |-> "None", frame |-> None]
locked_return(r) ==
    [brk |-> FALSE, err |-> "", self |-> r.self, tag |-> r.tag, frame |-> r.frame]

\* the 'locked block from the parity test on
locked_parity(self, w, aul) ==
    IF w.short THEN locked_return(iter_insufficient(self))
    ELSE IF parity_check_failed(w.parity)
    THEN locked_break(self, "ParityCheckFailed")
    ELSE IF ~IsSome(aul) THEN locked_return(iter_insufficient(self))
    ELSE IF Len(self.buffer) < Unwrap(aul)
    THEN locked_return(iter_insufficient(self))
    ELSE locked_return(
            [self |-> [self EXCEPT !.buffer = Tail_(@, Unwrap(aul)),
                                   !.timestamp = None,
                                   !.frames_processed = @ + 1],
             tag |-> "Ok",
             frame |-> Some(Frame(self.timestamp,
                                  Head_(self.buffer, Unwrap(aul))))])

\* the 'locked block of next(): either returns an item or breaks out of the
\* block towards the one-byte resync
locked_header(self, major, msil) ==
    IF major /\ Len(self.buffer) < 21 THEN locked_return(iter_insufficient(self))
    ELSE IF major /\ self.substreams # At(self.buffer, 20) \div 16
    THEN locked_break(self, "SubstreamMismatch")
    ELSE IF major /\ ~IsSome(msil) THEN locked_return(iter_insufficient(self))
    ELSE locked_parity(self,
                       parity_walk(self.buffer, 4,
                                   IF major THEN Unwrap(msil) + 2 ELSE 0,
                                   0, self.substreams, 0, 0),
                       access_unit_len(self))

locked_block(self) ==
    IF Len(self.buffer) < 6 THEN locked_return(iter_insufficient(self))
    ELSE locked_header(self,
                       At(self.buffer, 4) = 248 /\ At(self.buffer, 5) = 114,
                       major_sync_info_len(self))

\* the error path below the 'locked block: count, drop one byte
drop_one_byte(self) ==
    IF self.inited
    THEN [self EXCEPT !.error_count = @ + 1,
                      !.buffer = IF Len(@) > 0 THEN Tail_(@, 1) ELSE @]
    ELSE self

\* next() after the one-byte drop and resync: loop again, or end
RECURSIVE next_loop(_)
next_dropped(r2) ==
    IF r2.res = "Ok" THEN next_loop(r2.self)
    ELSE [self |-> r2.self, tag |-> "None", frame |-> None]

\* next() after the 'locked block
next_locked(lb) ==
    IF ~lb.brk THEN [self |-> lb.self, tag |-> lb.tag, frame |-> lb.frame]
    ELSE next_dropped(resync(drop_one_byte(lb.self)))

\* next() after `self.resync().ok()?` of the unlocked case
next_resynced(r) ==
    IF r.res # "Ok" THEN [self |-> r.self, tag |-> "None", frame |-> None]
    ELSE next_locked(locked_block(r.self))

next_loop(self) ==
    next_resynced(IF ~self.locked THEN resync(self)
                  ELSE [self |-> self, res |-> "Ok"])

\* Iterator::next
next(self) ==
    IF self.io_counter = 0
    THEN [self |-> self, tag |-> "None", frame |-> None]
    ELSE next_loop(self)

\* Frame::is_major_sync
is_major_sync(data) == At(data, 4) = 248 /\ At(data, 5) = 114

-----------------------------------------------------------------------------
(* process/mod.rs : EXAMPLE_DATA, and the byte streams fed to the model    *)

EXAMPLE_DATA == <<
    1, 16, 0, 1, 0, 35, 0, 69, 0, 22, 0, 25, 0, 17, 128, 0,
    240, 42, 255, 172, 248, 114, 111, 186, 0, 0, 128, 1, 183, 82, 0, 0,
    0, 0, 128, 128, 16, 20, 3, 128, 63, 31, 227, 7, 227, 0, 82, 152,
    176, 24, 3, 240, 241, 234, 0, 0, 1, 16, 0, 0, 2, 9, 82, 128,
    0, 0, 0, 2, 180, 68, 1, 232, 196, 64, 136, 209, 254, 145, 0, 99,
    3, 233, 24, 51, 134, 32, 104, 255, 203, 110, 219, 109, 182, 219, 109, 183,
    128, 0, 100, 249, 80, 10, 0, 0, 112, 7, 145, 64, 72, 0, 17, 61,
    219, 239, 243, 222, 208, 0, 213, 4 >>

\* two-byte substitution at 0-based index i
Patch(bytes, i, v) == [bytes EXCEPT ![i + 1] = v]

\* the parts of EXAMPLE_DATA: a SMPTE timestamp, a major-sync access unit of
\* 84 bytes and a plain access unit of 20 bytes; and damaged variants
Pieces ==
    [TS     |-> SubSeq(EXAMPLE_DATA, 1, 16),
     AU1    |-> SubSeq(EXAMPLE_DATA, 17, 100),
     AU2    |-> SubSeq(EXAMPLE_DATA, 101, 120),
     FF     |-> <<255, 255, 255, 255>>,
     \* a bit of the major sync info flipped: CRC-16 no longer matches
     AU1crc |-> Patch(SubSeq(EXAMPLE_DATA, 17, 100), 8, 1),
     \* substream count 2 instead of 1
     AU1sub |-> Patch(SubSeq(EXAMPLE_DATA, 17, 100), 20, 36),
     \* a bit of the header flipped: nibble parity fails
     AU2par |-> Patch(SubSeq(EXAMPLE_DATA, 101, 120), 3, 1),
     \* length field damaged to 10 words in front of an intact sync word
     AU1len |-> Patch(SubSeq(EXAMPLE_DATA, 17, 100), 1, 10),
     \* a header whose length field is 0 and whose parity is good
     ZERO   |-> <<240, 0, 0, 0, 0, 0>>]

Scenarios ==
    << <<"TS", "AU1", "AU2">>,
       <<"TS", "AU1", "AU2", "FF", "TS", "AU1", "AU2", "FF">>,
       <<"AU1", "AU2", "AU1", "AU2">>,
       <<"AU1", "AU2", "AU1crc", "AU2">>,
       <<"AU1crc", "AU1", "AU2">>,
       <<"AU1", "AU2par", "AU1", "AU2">>,
       <<"AU1", "AU1sub", "AU2", "AU1", "AU2">>,
       <<"AU1len", "AU1", "AU2">>,
       <<"AU1", "AU2", "ZERO", "AU1", "AU2">>,
       <<"AU1", "AU2", "FF", "AU1len", "AU1", "AU2">> >>

RECURSIVE Concat(_, _)
Concat(names, i) ==
    IF i > Len(names) THEN << >> ELSE Pieces[names[i]] \o Concat(names, i + 1)

Streams == [n \in DOMAIN Scenarios |-> Concat(Scenarios[n], 1)]

-----------------------------------------------------------------------------
(* process/mod.rs : PresentationMap                                        *)

MAX_PRESENTATIONS == 4

\* x >> n
Shr(x, n) == x \div (2 ^ n)
\* bitwise OR of two 4-bit substream masks
Or4(a, b) == a + b - AndBits(a, b, 4)

\* masks[i] is held at position i + 1
PresentationMap_with_substream_info(substream_info, extended_substream_info) ==
    [masks |->
        << 1,
           Shr(substream_info, 2) % 4,
           Shr(substream_info, 4) % 8,
           Or4(AndBits(Shr(substream_info, 4), 8, 4),
               XorBits(7, Shr(7, extended_substream_info % 4), 3)) >>]

presentation_type_by_index_downmix_first(self, index) ==
    LET down == {i \in (index + 1)..(MAX_PRESENTATIONS - 1) :
                    /\ Shr(self.masks[i + 1], i) # 0
                    /\ Shr(self.masks[i + 1], index) % 2 # 0}
        copy == {i \in 0..(index - 1) : Shr(self.masks[index + 1], i) # 0}
    IN  IF index >= MAX_PRESENTATIONS THEN [tag |-> "Invalid", of |-> 0]
        ELSE IF down # {}
        THEN [tag |-> "DownmixOf",
              of |-> CHOOSE i \in down : \A j \in down : i <= j]
        ELSE IF Shr(self.masks[index + 1], index) # 0
        THEN [tag |-> "Independent", of |-> 0]
        ELSE IF copy # {}
        THEN [tag |-> "CopyOf",
              of |-> CHOOSE i \in copy : \A j \in copy : i >= j]
        ELSE [tag |-> "Invalid", of |-> 0]

\* PresentationType as [tag, of]
presentation_type_by_index(self, index) ==
    LET down == {i \in (index + 1)..(MAX_PRESENTATIONS - 1) :
                    /\ Shr(self.masks[i + 1], i) # 0
                    /\ Shr(self.masks[i + 1], index) % 2 # 0}
        copy == {i \in 0..(index - 1) : Shr(self.masks[index + 1], i) # 0}
    IN  IF index >= MAX_PRESENTATIONS THEN [tag |-> "Invalid", of |-> 0]
        ELSE IF Shr(self.masks[index + 1], index) # 0
        THEN IF down # {}
             THEN [tag |-> "DownmixOf",
                   of |-> CHOOSE i \in down : \A j \in down : i <= j]
             ELSE [tag |-> "Independent", of |-> 0]
        ELSE IF copy # {}
        THEN [tag |-> "CopyOf",
              of |-> CHOOSE i \in copy : \A j \in copy : i >= j]
        ELSE [tag |-> "Invalid", of |-> 0]

max_independent_presentation(self) ==
    LET found == {i \in 0..(MAX_PRESENTATIONS - 1) : Shr(self.masks[i + 1], i) # 0}
    IN  IF found = {} THEN None
        ELSE Some(CHOOSE i \in found : \A j \in found : i >= j)

\* required_presentations[i] is held at position i + 1
substream_mask_by_required_presentations(self, required_presentations) ==
    LET m(i) == IF required_presentations[i] THEN self.masks[i] ELSE 0
    IN  Or4(Or4(Or4(m(1), m(2)), m(3)), m(4))

-----------------------------------------------------------------------------
(* utils/timing.rs : HiresOutputTimingState                                *)

HiresOutputTimingState_default ==
    [state_index |-> 0, serialisation_counter |-> 0, timing |-> 0,
     au_index |-> 0, au_output_timing |-> 0,
     prev_timing |-> 0, prev_au_index |-> 0, prev_au_output_timing |-> 0,
     counter |-> 0]

\* (timing << 16).wrapping_add(au_output_timing).wrapping_sub(au_index *
\* samples_per_au): the usize is this integer modulo 2^64
stream_start_timing(timing, au_output_timing, au_index, samples_per_au) ==
    timing * 65536 + au_output_timing - au_index * samples_per_au

\* timing - prev_timing == (prev_au_output_timing
\*     + (au_index - prev_au_index) * samples_per_au) >> 16
\* The left side is a usize subtraction; below zero it wraps to a value no
\* right side equals (au_index never runs backwards: it is au_counter).
timing_follows(self, samples_per_au) ==
    /\ self.timing >= self.prev_timing
    /\ self.timing - self.prev_timing
         = Shr(self.prev_au_output_timing
               + (self.au_index - self.prev_au_index) * samples_per_au, 16)

update_field_end_always_first(self, counter, samples_per_au, overflow_checks) ==
    [self |-> [self EXCEPT !.counter = 1,
                           !.prev_timing = self.timing,
                           !.prev_au_index = self.au_index,
                           !.prev_au_output_timing = self.au_output_timing,
                           !.state_index = 5],
     publish |-> Some(stream_start_timing(self.timing, self.au_output_timing,
                                          self.au_index, samples_per_au)),
     warn |-> None, panic |-> FALSE]

\* state 15 with the bit clear: the field is complete.  counter is the
\* counter after its saturating increment.  Yields what the call did: the new
\* self, the value handed to update_hires_output_timing, the warning logged,
\* and whether the call aborted on the subtraction's overflow check.
update_field_end(self, counter, samples_per_au, overflow_checks) ==
    LET refreshed == [self EXCEPT !.counter = counter,
                                  !.prev_timing = self.timing,
                                  !.prev_au_index = self.au_index,
                                  !.prev_au_output_timing = self.au_output_timing,
                                  !.state_index = 5]
    IN  IF counter < 2
        THEN [self |-> refreshed,
              publish |-> Some(stream_start_timing(
                                   self.timing, self.au_output_timing,
                                   self.au_index, samples_per_au)),
              warn |-> None, panic |-> FALSE]
        ELSE IF self.timing < self.prev_timing /\ overflow_checks
        THEN [self |-> [self EXCEPT !.counter = counter],
              publish |-> None, warn |-> None, panic |-> TRUE]
        ELSE IF timing_follows(self, samples_per_au)
        THEN [self |-> refreshed,
              publish |-> None, warn |-> None, panic |-> FALSE]
        ELSE [self |-> [self EXCEPT !.counter = 0, !.state_index = 5],
              publish |-> None,
              warn |-> Some("High-resolution timing sequence error"),
              panic |-> FALSE]

\* HiresOutputTimingState::update(&mut self, state, hires_present); the
\* Timing trait's au_index(), output_timing() and samples_per_au() are passed
\* as values
HiresOutputTimingState_update(self, au_index, output_timing, samples_per_au, hires_present, overflow_checks) ==
    LET i == self.state_index
        Quiet(after) == [self |-> after, publish |-> None, warn |-> None,
                        panic |-> FALSE]
        Warned(after, msg) == [self |-> after, publish |-> None,
                              warn |-> Some(msg), panic |-> FALSE]
    IN  IF i = 0
        THEN Quiet([self EXCEPT !.counter = 0,
                                !.state_index = IF hires_present THEN 0 ELSE 1])
        ELSE IF i <= 4
        THEN Quiet([self EXCEPT
                      !.state_index = IF hires_present THEN 0 ELSE i + 1])
        ELSE IF i = 5
        THEN IF hires_present
             THEN Quiet([self EXCEPT !.state_index = 6,
                                     !.serialisation_counter = 0,
                                     !.timing = 0,
                                     !.au_index = au_index,
                                     !.au_output_timing = output_timing])
             ELSE Warned([self EXCEPT !.state_index = 0],
                         IF self.serialisation_counter # 0
                         THEN "extra zero after data field end"
                         ELSE "extra zero in data field")
        ELSE IF i <= 10
        THEN IF hires_present
             THEN Quiet([self EXCEPT
                           !.state_index = IF i = 10 THEN 6 ELSE 11,
                           !.serialisation_counter = @ + (i - 6),
                           !.timing = @ * (2 ^ (i - 6))])
             ELSE IF i = 10
             THEN Warned([self EXCEPT !.state_index = 0],
                         "invalid zero in data field")
             ELSE Quiet([self EXCEPT !.state_index = i + 1])
        ELSE IF hires_present
        THEN Quiet([self EXCEPT
                      !.state_index = IF i = 15 THEN 6 ELSE 11,
                      !.timing = @ * (2 ^ (i - 10)) + 2 ^ (i - 11),
                      !.serialisation_counter = @ + (i - 10)])
        ELSE IF i = 15
        THEN update_field_end(self,
                              IF self.counter < 3 THEN self.counter + 1
                              ELSE self.counter,
                              samples_per_au, overflow_checks)
        ELSE Quiet([self EXCEPT !.state_index = i + 1])
-----------------------------------------------------------------------------
(* process/parse.rs : ParserState                                          *)
(*                                                                         *)
(* A frame is described by the fields the parser reads from it; payloads   *)
(* whose content decides nothing modelled here (format info channel words, *)
(* channel meaning, block header sections, sample data) are given by their *)
(* length in bits.  Write-only statistics (max_data_rate, au_end_pos_bit,  *)
(* substream_size_history) and the DRC counters are left out.              *)
(* sync.rs and restart_header.rs call two of the flags has_branch and      *)
(* has_jump: has_branch is the flag raised by a peak data rate change      *)
(* (peak_data_rate_jump), has_jump the flag raised by a valid seamless     *)
(* branch (has_valid_branch).                                              *)
MAJOR_SYNC_FBA == "F8726FBA"

BASE_SAMPLING_RATE_CD == 44100

BASE_SAMPLING_RATE_DVD == 48000

BASE_SAMPLES_PER_AU == 40

\* the entry of output_timing_history written last stands for the ring:
\* every read is at history_index - 1, every write at history_index
ParserSubstreamState_default ==
    [crc_present |-> FALSE, substream_end_ptr |-> 0, drc_count |-> 0,
     block_index |-> 0, restart_sync_word |-> 0, block_size |-> 8,
     hires_output_timing_state |-> HiresOutputTimingState_default,
     latency |-> 0, prev_latency |-> 0, output_timing_history |-> 0]

ParserState_default ==
    [fail_level |-> "Error", allow_seamless_branch |-> TRUE,
     check_fifo |-> TRUE,
     last_major_sync_index |-> 0, au_counter |-> 0,
     is_major_sync |-> FALSE, has_parsed_au |-> FALSE,
     au_start_pos |-> 0,
     access_unit_length |-> 0, prev_access_unit_length |-> 0,
     total_access_unit_length |-> 0,
     advance |-> 0, prev_advance |-> 0,
     fifo_duration |-> 0, prev_fifo_duration |-> 0,
     input_timing |-> 0, first_input_timing |-> 0, prev_input_timing |-> 0,
     output_timing |-> 0, first_output_timing |-> 0,
     output_timing_deviation |-> 0, hires_output_timing |-> None,
     unwrapped_input_timing |-> 0, prev_unwrapped_input_timing |-> 0,
     input_timing_jump |-> FALSE, output_timing_jump |-> FALSE,
     peak_data_rate_jump |-> FALSE, has_valid_branch |-> FALSE,
     variable_rate |-> FALSE, peak_data_rate |-> 0, prev_peak_data_rate |-> 0,
     audio_sampling_frequency_1 |-> 0, samples_per_au |-> 0,
     format_sync |-> "00000000", flags |-> 0,
     presentation_map |-> None,
     required_presentations |-> <<TRUE, TRUE, TRUE, TRUE>>,
     substreams |-> None, extended_substream_info |-> 0, substream_info |-> 0,
     has_parsed_substream |-> FALSE,
     substream_segment_start_pos |-> 0, substream_index |-> 0,
     substream_mask |-> 0,
     substream_state |->
        [i \in 1..MAX_PRESENTATIONS |-> ParserSubstreamState_default]]

expected_au_end_pos(s) == s.au_start_pos + s.access_unit_length * 16

\* reset_for_branch(): every substream's hires state starts over
reset_for_branch(s) ==
    [s EXCEPT !.substream_state =
        [i \in 1..MAX_PRESENTATIONS |->
            [s.substream_state[i] EXCEPT
                !.hires_output_timing_state = HiresOutputTimingState_default]]]

reset_parser_substream_state_whole(s) ==
    [s EXCEPT !.substream_state[s.substream_index + 1] =
        ParserSubstreamState_default]

\* reset_parser_substream_state(): the fields named in the struct literal
\* survive, the others return to their defaults
reset_parser_substream_state(s) ==
    [s EXCEPT !.substream_state[s.substream_index + 1] =
        [@ EXCEPT !.block_index = ParserSubstreamState_default.block_index,
                  !.restart_sync_word =
                      ParserSubstreamState_default.restart_sync_word,
                  !.block_size = ParserSubstreamState_default.block_size]]

-----------------------------------------------------------------------------
(* One parse() call in progress: the state, the frame, the reader's bit    *)
(* position, the error being returned ("" while running) and the messages  *)
(* logged so far as <<level, message>>.                                    *)
Reading(s, f, overflow_checks) ==
    [s |-> s, f |-> f, pos |-> 0, err |-> "", log |-> {},
     overflow_checks |-> overflow_checks,
     ends |-> << >>, restarts |-> << >>]

\* statements after a return are not executed
Then(c, F(_)) ==
    CHOOSE r \in {IF x.err # "" THEN x ELSE F(x) : x \in {c}} : TRUE

\* bail!(err) and `?` on an Err
Bail(c, err) == [c EXCEPT !.err = err]

\* warn!(..), error!(..): logged whatever the fail level
Logged(c, level, msg) == [c EXCEPT !.log = @ \cup {<<level, msg>>}]

\* log_or_err!(state, level, err)
Issue(c, level, err) ==
    IF log_or_err(c.s.fail_level, level) THEN Bail(c, err)
    ELSE Logged(c, level, err)

\* a usize/u64/u16 subtraction a - b with a < b
Underflow(c) ==
    IF c.overflow_checks THEN Bail(c, "panic: attempt to subtract with overflow")
    ELSE c

\* get_n / get / skip_n of n bits: Err(UnexpectedEof) past the frame's end
Advance(c, n) ==
    IF c.pos + n > c.f.len_bits THEN Bail(c, "UnexpectedEof")
    ELSE [c EXCEPT !.pos = @ + n]

\* align_16bit(): byte_align, then 8 more bits when not on a 16-bit boundary
align_16bit(c) ==
    Then([c EXCEPT !.pos = ((@ + 7) \div 8) * 8],
         LAMBDA x : IF x.pos % 16 > 0 THEN Advance(x, 8) ELSE x)

-----------------------------------------------------------------------------
(* structs/sync.rs : MajorSyncInfo::read                                   *)
map_sampling_freq(value) ==
    IF value \in 0..2 THEN Some(BASE_SAMPLING_RATE_DVD * 2 ^ value)
    ELSE IF value \in 8..10 THEN Some(BASE_SAMPLING_RATE_CD * 2 ^ (value - 8))
    ELSE None

MajorSyncInfo_read(c) ==
    LET FormatInfo_samples_per_au(freq) ==
            (freq \div BASE_SAMPLING_RATE_CD) * BASE_SAMPLES_PER_AU
        \* format_sync, FormatInfo::read
        ms_format(k) ==
            IF ~IsSome(map_sampling_freq(k.f.ms.audio_sampling_frequency_1))
            THEN Bail([k EXCEPT !.s.format_sync = MAJOR_SYNC_FBA,
                                !.s.is_major_sync = TRUE],
                      "InvalidSamplingFrequency")
            ELSE [k EXCEPT
                    !.s.format_sync = MAJOR_SYNC_FBA,
                    !.s.is_major_sync = TRUE,
                    !.s.audio_sampling_frequency_1 =
                        Unwrap(map_sampling_freq(k.f.ms.audio_sampling_frequency_1)),
                    !.s.samples_per_au =
                        FormatInfo_samples_per_au(
                            Unwrap(map_sampling_freq(k.f.ms.audio_sampling_frequency_1)))]
        ms_signature(k) ==
            IF k.f.ms.signature # 46930
            THEN Issue(k, "Warn", "InvalidMajorSyncSignature") ELSE k
        ms_flags_reserved(k) ==
            IF AndBits(k.f.ms.flags, 26623, 16) # 0
            THEN Issue(k, "Warn", "ReservedFlagsNonZero") ELSE k
        ms_flags_mismatch(k) ==
            IF k.s.has_parsed_au /\ k.s.flags # k.f.ms.flags
            THEN Issue(k, "Warn", "FlagsMismatch") ELSE k
        ms_flags(k) ==
            Then(Then(ms_flags_reserved(k), ms_flags_mismatch),
                 LAMBDA x : [x EXCEPT !.s.flags = x.f.ms.flags])
        \* peak data rate check
        ms_peak_check(k) ==
            IF k.s.check_fifo /\ k.s.has_parsed_au
               /\ k.s.peak_data_rate # k.f.ms.peak_data_rate
            THEN IF k.s.allow_seamless_branch
                 THEN [k EXCEPT !.s.peak_data_rate_jump = TRUE]
                 ELSE Issue(k, "Warn", "PeakDataRateMismatch")
            ELSE k
        ms_peak(k) ==
            Then(ms_peak_check(k),
                 LAMBDA x : [x EXCEPT !.s.variable_rate = x.f.ms.variable_rate,
                                      !.s.peak_data_rate = x.f.ms.peak_data_rate])
        ms_substreams(k) ==
            IF IsSome(k.s.substreams)
            THEN IF Unwrap(k.s.substreams) # k.f.ms.substreams
                 THEN Issue(k, "Warn", "SubstreamCountMismatch") ELSE k
            ELSE [k EXCEPT !.s.substreams = Some(k.f.ms.substreams)]
        ms_reserved_extended(k) ==
            IF Shr(k.f.ms.extended_substream_info, 2) # 0
            THEN Issue(k, "Debug", "ReservedExtendedSubstreamInfo") ELSE k
        ms_reserved_info(k) ==
            IF k.f.ms.substream_info % 4 # 0
            THEN Issue(k, "Debug", "ReservedSubstreamInfo") ELSE k
        ms_info_mismatch(k) ==
            IF k.s.has_parsed_au /\ k.f.ms.substream_info # k.s.substream_info
            THEN Issue(k, "Error", "SubstreamInfoMismatch") ELSE k
        ms_extended_mismatch(k) ==
            IF k.s.has_parsed_au
               /\ k.f.ms.extended_substream_info # k.s.extended_substream_info
            THEN Issue(k, "Error", "ExtendedSubstreamInfoMismatch") ELSE k
        \* 'check_substream_info; the table of known substream_info values that is
        \* consulted at the first major sync is not modelled, the frames of the model
        \* carry values it knows
        ms_substream_info(k) ==
            Then(Then(Then(ms_reserved_extended(k), ms_reserved_info),
                      ms_info_mismatch), ms_extended_mismatch)
        ms_presentation_map(k) ==
            [k EXCEPT
                !.s.presentation_map =
                    Some(PresentationMap_with_substream_info(
                             k.f.ms.substream_info, k.f.ms.extended_substream_info)),
                !.s.substream_mask =
                    substream_mask_by_required_presentations(
                        PresentationMap_with_substream_info(
                            k.f.ms.substream_info, k.f.ms.extended_substream_info),
                        k.s.required_presentations),
                !.s.substream_info = k.f.ms.substream_info,
                !.s.extended_substream_info = k.f.ms.extended_substream_info]
        \* the reads up to and including major_sync_info_crc, then the CRC test
        ms_crc(k) ==
            Then(Advance(k, k.f.ms.len_bits),
                 LAMBDA x : IF ~x.f.ms.crc_ok
                            THEN Issue(x, "Error", "MajorSyncCrcMismatch") ELSE x)
    IN  Then(Then(Then(Then(Then(Then(Then(ms_format(c), ms_signature), ms_flags),
                                 ms_peak), ms_substreams), ms_substream_info),
                  ms_presentation_map), ms_crc)

-----------------------------------------------------------------------------
(* structs/access_unit.rs : AccessUnit::check_fifo                         *)
div_ceil(a, b) == (a + b - 1) \div b

input_timing_interval(s) ==
    IF s.has_valid_branch
    THEN s.unwrapped_input_timing - s.prev_unwrapped_input_timing
    ELSE (s.input_timing - s.prev_input_timing) % 65536

samples_per_75ms(s) == div_ceil(s.audio_sampling_frequency_1 * 3, 40)

fifo_anomaly_on_every_unit(c, violated, err, err_after_jump) ==
    IF ~violated THEN c
    ELSE Then(Issue(c, "Warn", err),
              LAMBDA x : [x EXCEPT !.s.input_timing_jump = TRUE])

fifo_anomaly(c, violated, err, err_after_jump) ==
        \* one of the four interval tests: the issue itself unless this is a major
        \* sync with seamless branching allowed, the after-jump issue when the
        \* previous access unit was a valid branch, then the jump flag
    LET fifo_issue(k, e) ==
            IF ~k.s.allow_seamless_branch \/ ~k.s.is_major_sync
            THEN Issue(k, "Warn", e) ELSE k
        fifo_after_jump(k, e) ==
            IF k.s.has_valid_branch THEN Issue(k, "Warn", e) ELSE k
    IN  IF ~violated THEN c
        ELSE Then(Then(fifo_issue(c, err),
                       LAMBDA x : fifo_after_jump(x, err_after_jump)),
                  LAMBDA x : [x EXCEPT !.s.input_timing_jump = TRUE])

check_fifo(c) ==
    LET fifo_duration_of(s) ==
            IF s.peak_data_rate # 0
            THEN div_ceil(s.access_unit_length * 256, s.peak_data_rate) ELSE 0
        max_data_rate_of(s) ==
            IF s.format_sync = MAJOR_SYNC_FBA THEN 288000000 ELSE 153600000
        \* peak_data_rate * audio_sampling_frequency_1 > max_data_rate, written as a
        \* division to stay inside the checker's integers
        peak_exceeds_max(s) ==
            s.audio_sampling_frequency_1 # 0
            /\ s.peak_data_rate > max_data_rate_of(s) \div s.audio_sampling_frequency_1
        fifo_too_short(k) ==
            fifo_anomaly(k, input_timing_interval(k.s) < Shr(k.s.samples_per_au, 2),
                         "TimingTooShort", "TimingTooShortAfterJump")
        fifo_shorter_than_previous(k) ==
            fifo_anomaly(k, input_timing_interval(k.s) < k.s.prev_fifo_duration,
                         "TimingShorterThanPrevious",
                         "TimingShorterThanPreviousAfterJump")
        fifo_data_rate(k) ==
            fifo_anomaly(k,
                         k.s.variable_rate
                         /\ k.s.prev_access_unit_length * 256
                                > input_timing_interval(k.s) * k.s.peak_data_rate,
                         "DataRateExceeded", "DataRateExceededAfterJump")
        fifo_too_long(k) ==
            fifo_anomaly(k,
                         k.s.has_parsed_au
                         /\ input_timing_interval(k.s) > samples_per_75ms(k.s),
                         "TimingTooLong", "TimingTooLongAfterJump")
        abs_diff(a, b) ==
            IF a >= b THEN a - b ELSE b - a
        fifo_fixed_rate(k) ==
            IF ~k.s.variable_rate
               /\ abs_diff((k.s.unwrapped_input_timing - k.s.first_input_timing)
                               * k.s.peak_data_rate,
                           k.s.total_access_unit_length * 256) >= 256
            THEN Issue(k, "Warn", "FixedRateMismatch") ELSE k
        fifo_peak(k) ==
            IF peak_exceeds_max(k.s)
            THEN Logged([k EXCEPT !.s.fifo_duration = fifo_duration_of(k.s)],
                        "Warn", "Peak data rate exceeds maximum allowed")
            ELSE [k EXCEPT !.s.fifo_duration = fifo_duration_of(k.s)]
        fifo_interval(k) ==
            IF ~k.s.has_parsed_au THEN k
            ELSE Then(Then(Then(Then(fifo_too_short(k), fifo_shorter_than_previous),
                                fifo_data_rate), fifo_too_long), fifo_fixed_rate)
    IN  IF ~c.s.check_fifo THEN c ELSE Then(fifo_peak(c), fifo_interval)

-----------------------------------------------------------------------------
(* structs/substream.rs : SubstreamDirectory::read                         *)
SubstreamDirectory_read(c, sd) ==
    LET directory_store(k, d) ==
            [k EXCEPT !.s.substream_state[k.s.substream_index + 1] =
                [@ EXCEPT !.crc_present = d.crc_present,
                          !.substream_end_ptr = d.substream_end_ptr]]
        directory_restart(k, d) ==
            IF k.s.is_major_sync = d.restart_nonexistent
            THEN Bail(k, "InvalidRestartNonexistent") ELSE k
        \* drc_count += 1 on an FBA stream; the extra word starts it over
        directory_drc_count(k) ==
            [k EXCEPT !.s.substream_state[k.s.substream_index + 1].drc_count =
                IF k.s.format_sync = MAJOR_SYNC_FBA THEN @ + 1 ELSE @]
        directory_extra_word(k) ==
            [k EXCEPT !.s.substream_state[k.s.substream_index + 1].drc_count = 0]
    IN  Then(Then(Then(Then(Advance(c, 16), directory_drc_count),
                       LAMBDA x : IF sd.extra_substream_word
                                  THEN Then(Advance(x, 16), directory_extra_word)
                                  ELSE x),
                  LAMBDA x : directory_restart(x, sd)),
             LAMBDA x : directory_store(x, sd))

-----------------------------------------------------------------------------
(* structs/restart_header.rs : RestartHeader::read                         *)
RestartSyncWord_A == 12778

RestartSyncWord_B == 12779

RestartSyncWord_C == 12780

\* advance is a usize that block.rs sets with wrapping_sub and no mask: a
\* negative integer here stands for the usize 2^64 more.  a <= b on usize:
usize_le(a, b) == IF (a < 0) = (b < 0) THEN a <= b ELSE b < 0

rh_warn_if(c, cond, msg) == IF cond THEN Logged(c, "Warn", msg) ELSE c

\* 'check_output_timing
rh_check_output_timing(c, rh) ==
    LET rh_output_timing_mismatch(k, h) ==
            IF k.s.has_parsed_substream /\ k.s.output_timing % 65536 # h.output_timing
            THEN Issue(k, "Warn", "OutputTimingMismatch") ELSE k
        \* the first access unit: first_output_timing, lifted above input_timing
        rh_first_output_timing(k) ==
            [k EXCEPT !.s.first_output_timing = k.s.output_timing,
                      !.s.output_timing =
                          IF k.s.output_timing < k.s.input_timing
                          THEN @ + 65536 ELSE @]
        rh_expected_output_timing(s) ==
            s.output_timing_deviation + s.samples_per_au
                + s.substream_state[s.substream_index + 1].output_timing_history
        rh_jump_issue(k) ==
            IF k.s.allow_seamless_branch
            THEN Then(IF k.s.has_valid_branch
                      THEN Issue(k, "Warn", "OutputTimingAfterJump") ELSE k,
                      LAMBDA x : [x EXCEPT !.s.output_timing_jump = TRUE])
            ELSE Issue(k, "Warn", "InvalidOutputTiming")
        rh_branch_interval(s) ==
            (s.samples_per_au + s.prev_advance - s.advance) % 65536
        \* a + b (b >= 0) leaves the usize range
        add_overflows(a, b) ==
            a < 0 /\ a + b >= 0
        \* a - b (b >= 0) leaves the usize range
        sub_overflows(a, b) ==
            a >= 0 /\ a < b
        rh_c1(s) ==
            usize_le(s.advance, s.prev_advance + 3 * Shr(s.samples_per_au, 2))
        rh_c2(s) ==
            usize_le(s.advance, s.prev_advance + s.samples_per_au - s.prev_fifo_duration)
        rh_c3(s) ==
            usize_le(s.advance, samples_per_75ms(s) - s.samples_per_au)
        rh_c4(s) ==
            s.prev_access_unit_length * 256 <= s.prev_peak_data_rate
        \* the additions and subtractions of c1..c3 that abort where overflow checks
        \* are compiled in
        rh_branch_overflows(s) ==
            \/ add_overflows(s.prev_advance, 3 * Shr(s.samples_per_au, 2))
            \/ add_overflows(s.prev_advance, s.samples_per_au)
            \/ sub_overflows(s.prev_advance + s.samples_per_au, s.prev_fifo_duration)
            \/ sub_overflows(samples_per_75ms(s), s.samples_per_au)
        rh_valid_branch(k) ==
            [k EXCEPT !.s =
                [reset_for_branch(k.s) EXCEPT
                    !.has_valid_branch = TRUE,
                    !.output_timing_deviation =
                        (k.s.output_timing - k.s.first_output_timing
                             - k.s.au_counter * k.s.samples_per_au) % 65536]]
        rh_invalid_branch(k) ==
            Issue(rh_warn_if(rh_warn_if(rh_warn_if(rh_warn_if(k,
                      rh_c1(k.s), "advance[n]>advance[n-1]+3*samples_per_au/4"),
                      rh_c2(k.s), "advance[n]>advance[n-1]+samples_per_au-duration[n-1]"),
                      rh_c3(k.s), "advance[n]>samples_per_75ms-samples_per_au"),
                      rh_c4(k.s), "data_rate exceeds peak_data_rate after adjusting timing for jump"),
                  "Warn", "InvalidSeamlessBranch")
        rh_branch_test(k) ==
            IF rh_branch_interval(k.s) = 0
            THEN Bail(k, "panic: attempt to divide by zero")
            ELSE IF rh_branch_overflows(k.s) /\ k.overflow_checks
            THEN Underflow(k)
            ELSE IF rh_c1(k.s) /\ rh_c2(k.s) /\ rh_c3(k.s) /\ rh_c4(k.s)
            THEN rh_valid_branch(k)
            ELSE rh_invalid_branch(k)
        rh_after_jump(k) ==
            IF k.s.peak_data_rate_jump \/ k.s.input_timing_jump \/ k.s.output_timing_jump
            THEN rh_branch_test(k) ELSE k
        rh_compare(k) ==
            IF rh_expected_output_timing(k.s) % 65536 = k.s.output_timing THEN k
            ELSE Then(rh_jump_issue(k), rh_after_jump)
        \* a later access unit: advance, then the comparison with the history
        rh_later_output_timing(k) ==
            rh_compare([k EXCEPT !.s.advance =
                           (k.s.output_timing - k.s.samples_per_au
                                - k.s.input_timing) % 65536])
    IN  Then(rh_output_timing_mismatch(c, rh),
             LAMBDA x :
                IF x.s.has_parsed_substream THEN x
                ELSE IF ~x.s.has_parsed_au
                THEN rh_first_output_timing(
                         [x EXCEPT !.s.output_timing = rh.output_timing])
                ELSE rh_later_output_timing(
                         [x EXCEPT !.s.output_timing = rh.output_timing]))

\* the match on restart_sync_word
rh_sync_word_legal(c, rh) ==
    IF rh.restart_sync_word = RestartSyncWord_A
    THEN IF c.s.substream_index = 1 /\ AndBits(c.s.substream_info, 8, 8) = 0
         THEN Bail(c, "InvalidSyncBForSubstream1") ELSE c
    ELSE IF rh.restart_sync_word = RestartSyncWord_B
    THEN IF c.s.substream_index = 0
         THEN Bail(c, "InvalidSyncBForSubstream0") ELSE c
    ELSE IF c.s.substream_index # 3
         THEN Bail(c, "InvalidSyncC") ELSE c

RestartHeader_read(c, rh) ==
        \* RestartSyncWord::from(value) panics on any other word
    LET RestartSyncWord_read(k, h) ==
            Then(Advance(k, 14),
                 LAMBDA x : IF h.restart_sync_word \in
                                {RestartSyncWord_A, RestartSyncWord_B, RestartSyncWord_C}
                            THEN x ELSE Bail(x, "panic: restart_sync_word"))
        rh_max_bits(k, h) ==
            IF h.max_bits # h.max_bits_repeat THEN Bail(k, "MaxBitsMismatch") ELSE k
        \* what update() did, stored back into the parser state
        rh_hires_result(k, r) ==
            IF r.panic THEN Bail(k, "panic: attempt to subtract with overflow")
            ELSE rh_warn_if(
                    [k EXCEPT
                        !.s.substream_state[k.s.substream_index + 1]
                            .hires_output_timing_state = r.self,
                        !.s.hires_output_timing =
                            IF IsSome(r.publish) THEN r.publish ELSE @],
                    IsSome(r.warn),
                    IF IsSome(r.warn) THEN Unwrap(r.warn) ELSE "")
        rh_hires(k, h) ==
            IF k.s.has_parsed_substream THEN k
            ELSE rh_hires_result(k,
                    HiresOutputTimingState_update(
                        k.s.substream_state[k.s.substream_index + 1]
                            .hires_output_timing_state,
                        k.s.au_counter, k.s.output_timing, k.s.samples_per_au,
                        h.hires_output_timing, k.overflow_checks))
        \* the DRC and ch_assign fields are part of rh.len_bits; the CRC-8 test
        rh_crc(k, h) ==
            Then(Advance(k, h.len_bits - 14),
                 LAMBDA x : IF ~h.crc_ok
                            THEN Bail(x, "RestartHeaderCrcMismatch") ELSE x)
        \* restarts records the substream's state before the reset and after
        \* the header's fields are stored
        rh_store(k, h) ==
            [k EXCEPT
                !.s = [reset_parser_substream_state(k.s) EXCEPT
                    !.substream_state[k.s.substream_index + 1].restart_sync_word =
                        h.restart_sync_word],
                !.restarts = Append(@,
                    [substream |-> k.s.substream_index,
                     before |-> k.s.substream_state[k.s.substream_index + 1],
                     after |-> [reset_parser_substream_state(k.s)
                                    .substream_state[k.s.substream_index + 1]
                                EXCEPT !.restart_sync_word =
                                           h.restart_sync_word]])]
    IN  Then(Then(Then(Then(Then(Then(RestartSyncWord_read(c, rh),
            LAMBDA x : rh_check_output_timing(x, rh)),
            LAMBDA x : rh_sync_word_legal(x, rh)),
            LAMBDA x : rh_max_bits(x, rh)),
            LAMBDA x : rh_hires(x, rh)),
            LAMBDA x : rh_crc(x, rh)),
            LAMBDA x : rh_store(x, rh))

-----------------------------------------------------------------------------
(* structs/block.rs : Block::read                                          *)
block_latency(c) ==
    LET block_latency_of(s) ==
            ((s.au_counter - s.last_major_sync_index) * s.samples_per_au
                 + s.output_timing - s.input_timing) % 65536
        \* latency, prev_latency and, off a major sync, advance
        latency_store(k, prev_latency, latency) ==
            [k EXCEPT
                !.s.substream_state[k.s.substream_index + 1] =
                    [@ EXCEPT !.prev_latency = prev_latency,
                              !.latency = latency],
                !.s.advance = IF ~k.s.is_major_sync
                              THEN latency - k.s.samples_per_au ELSE @]
        latency_inconsistent(k, prev_latency, latency) ==
            IF ~(AndBits(k.s.flags, 32768, 16) = 0 \/ ~k.s.has_parsed_au)
               /\ prev_latency # latency
            THEN Issue(k, "Warn", "LatencyInconsistent") ELSE k
        \* the latency the three range tests look at
        latency_tested(s, prev_latency, latency) ==
            IF AndBits(s.flags, 32768, 16) = 0 \/ ~s.has_parsed_au
            THEN latency ELSE prev_latency
        latency_duration(k, tested) ==
            IF k.s.fifo_duration > tested
            THEN Issue(k, "Warn", "DurationExceedsLatency") ELSE k
        latency_too_high(k, tested) ==
            IF tested > samples_per_75ms(k.s)
            THEN Issue(k, "Warn", "LatencyTooHigh") ELSE k
        latency_too_low(k, tested) ==
            IF tested < k.s.samples_per_au
            THEN Issue(k, "Warn", "LatencyTooLow") ELSE k
        latency_checks(k, tested) ==
            Then(Then(latency_duration(k, tested),
                      LAMBDA x : latency_too_high(x, tested)),
                 LAMBDA x : latency_too_low(x, tested))
        \* substream_size is a u16 difference of end pointers
        substream_size_underflows(s) ==
            IF s.substream_index = 0
            THEN s.substream_state[1].substream_end_ptr
                     < Shr(s.substream_segment_start_pos, 4) % 65536
            ELSE s.substream_state[s.substream_index + 1].substream_end_ptr
                     < s.substream_state[s.substream_index].substream_end_ptr
        \* update output timing
        history_update(k) ==
            IF substream_size_underflows(k.s) /\ k.overflow_checks
            THEN Underflow(k)
            ELSE [k EXCEPT
                    !.s.substream_state[k.s.substream_index + 1].output_timing_history =
                        IF ~k.s.has_parsed_au THEN k.s.output_timing
                        ELSE @ + k.s.samples_per_au]
        block_latency_stage(k, prev_latency, latency) ==
            Then(Then(Then(latency_store(k, prev_latency, latency),
                           LAMBDA x : latency_inconsistent(x, prev_latency, latency)),
                      LAMBDA x : latency_checks(
                                    x, latency_tested(x.s, prev_latency, latency))),
                 history_update)
    IN  IF ~c.s.has_parsed_substream
           /\ c.s.substream_state[c.s.substream_index + 1].block_index = 0
        THEN block_latency_stage(
                 c, c.s.substream_state[c.s.substream_index + 1].latency,
                 block_latency_of(c.s))
        ELSE c

Block_read(c, b) ==
        \* ss_state.block_size = block_size
    LET block_size_store(k, block_size) ==
            [k EXCEPT !.s.substream_state[k.s.substream_index + 1].block_size =
                block_size]
        \* BlockHeader::read, new_block_size
        block_size_check(k, blk) ==
            IF ~IsSome(blk.block_size) THEN k
            ELSE IF Unwrap(blk.block_size) < 8 \/ Unwrap(blk.block_size) > 160
            THEN Bail(k, "InvalidBlockSizeRange")
            ELSE IF Unwrap(blk.block_size) > k.s.samples_per_au
            THEN Bail(k, "BlockSizeExceedsAU")
            ELSE block_size_store(
                    IF Unwrap(blk.block_size) % 8 # 0
                    THEN Logged(k, "Warn", "Block size is not a multiple of 8")
                    ELSE k, Unwrap(blk.block_size))
        block_restart_header(k, blk) ==
            IF IsSome(blk.restart_header)
            THEN RestartHeader_read(k, Unwrap(blk.restart_header)) ELSE k
        \* the block's flags, headers and data take b.len_bits bits, of which the
        \* restart header has taken its own
        block_body(k, blk) ==
            Advance(k, blk.len_bits - (IF IsSome(blk.restart_header)
                                     THEN Unwrap(blk.restart_header).len_bits ELSE 0))
    IN  Then(Then(Then(block_restart_header(c, b),
                       LAMBDA x : block_size_check(x, b)),
                  block_latency),
             LAMBDA x : block_body(x, b))

-----------------------------------------------------------------------------
(* structs/substream.rs : SubstreamSegment::read                           *)
TERMINATOR_A == 215251

TERMINATOR_B == 4660

too_many_blocks_above_four(s, n) == n > 4

\* the guard at the head of the block loop, n blocks read so far
too_many_blocks(s, n) == n > 4 \/ (n >= 3 /\ s.format_sync = MAJOR_SYNC_FBA)

\* while !last_block_in_segment: the flag is set on the last block the frame
\* describes
RECURSIVE segment_blocks(_, _, _)
segment_blocks(c, seg, n) ==
        \* last_block_in_segment, block_index += 1
    LET block_end(k) ==
            Then(Advance(k, 1),
                 LAMBDA x : [x EXCEPT !.s.substream_state[x.s.substream_index + 1]
                                          .block_index = @ + 1])
    IN  IF c.err # "" THEN c
        ELSE IF too_many_blocks(c.s, n) THEN Bail(c, "TooManyBlocks")
        ELSE IF n + 1 >= Len(seg.block)
        THEN Then(Block_read(c, seg.block[n + 1]), block_end)
        ELSE Then(Then(Block_read(c, seg.block[n + 1]), block_end),
                  LAMBDA x : segment_blocks(x, seg, n + 1))

segment_expected_end_pos(s) ==
    s.substream_segment_start_pos
        + s.substream_state[s.substream_index + 1].substream_end_ptr * 16

segment_end_unchecked(c) ==
    IF c.pos % 16 # 0 THEN Bail(c, "UnalignedSegmentEnd") ELSE c

\* the two tests on the position the segment ended at
segment_end(c) ==
    IF c.pos % 16 # 0 THEN Bail(c, "UnalignedSegmentEnd")
    ELSE IF segment_expected_end_pos(c.s) # c.pos
    THEN Bail(c, "SubstreamEndMismatch")
    ELSE c

SubstreamSegment_read(c, seg) ==
    LET segment_test_size(s) ==
            IF s.substream_state[s.substream_index + 1].crc_present THEN 48 ELSE 32
        segment_start(k) ==
            IF k.pos % 16 # 0 THEN Bail(k, "segment not byte-aligned at start")
            ELSE [k EXCEPT !.s.substream_state[k.s.substream_index + 1].block_index = 0]
        terminator_zero_samples(k, g) ==
            Then(Advance(k, 13),
                 LAMBDA x : IF g.zero_samples < x.s.samples_per_au THEN x
                            ELSE Logged(x, "Warn", "Too many zero samples"))
        terminator_b(k, g) ==
            Then(Advance(k, 13),
                 LAMBDA x : IF g.terminator_b # TERMINATOR_B
                            THEN Logged(x, "Warn", "Invalid terminator B") ELSE x)
        terminator_word(k, g) ==
            IF g.terminator_a = TERMINATOR_A
            THEN Then(Advance(k, 1),
                      LAMBDA x : IF g.zero_samples_indicated
                                 THEN terminator_zero_samples(x, g)
                                 ELSE terminator_b(x, g))
            ELSE [Logged(k, "Warn", "Invalid termination word")
                     EXCEPT !.pos = @ - 18]
        \* expected_end_pos - position is a u64 difference: below zero it aborts or
        \* wraps to a value above every test_size
        segment_terminator(k, g) ==
            IF segment_expected_end_pos(k.s) < k.pos /\ k.overflow_checks
            THEN Underflow(k)
            ELSE IF segment_expected_end_pos(k.s) < k.pos
                    \/ segment_expected_end_pos(k.s) - k.pos >= segment_test_size(k.s)
            THEN Then(Advance(k, 18), LAMBDA x : terminator_word(x, g))
            ELSE k
        segment_crc(k, g) ==
            IF ~k.s.substream_state[k.s.substream_index + 1].crc_present THEN k
            ELSE Then(Advance(k, 16),
                      LAMBDA x : IF ~g.parity_ok THEN Bail(x, "ParityMismatch")
                                 ELSE IF ~g.crc_ok THEN Bail(x, "CrcMismatch")
                                 ELSE x)
    IN  Then(Then(Then(Then(Then(segment_start(c),
            LAMBDA x : segment_blocks(x, seg, 0)),
            align_16bit),
            LAMBDA x : segment_terminator(x, seg)),
            LAMBDA x : segment_crc(x, seg)),
            segment_end)

-----------------------------------------------------------------------------
(* structs/access_unit.rs : AccessUnit::read                               *)

\* input_timing.wrapping_sub(output_timing_deviation as u16), then 0x10000
\* added while the previous unwrapped value is above it
unwrap_input_timing(input_timing, deviation, prev) ==
    LET base == (input_timing - deviation) % 65536
    IN  IF prev > base
        THEN base + 65536 * ((prev - base + 65535) \div 65536)
        ELSE base

\* for i in 0..substreams: SubstreamDirectory::read
RECURSIVE au_directories(_, _)
au_directories(c, i) ==
    IF c.err # "" \/ i >= Unwrap(c.s.substreams) THEN c
    ELSE IF i >= Len(c.f.directory) THEN Bail(c, "UnexpectedEof")
    ELSE Then(SubstreamDirectory_read([c EXCEPT !.s.substream_index = i],
                                      c.f.directory[i + 1]),
              LAMBDA x : au_directories(x, i + 1))

\* one turn of the segment loop: a substream outside the mask is skipped, the
\* others are read.  ends records where the reader stood afterwards.
au_substream(c, i) ==
    LET end_pos == c.s.substream_segment_start_pos
                       + c.s.substream_state[i + 1].substream_end_ptr * 16
        Handled(k, read) ==
            [k EXCEPT !.ends = Append(@, [substream |-> i, pos |-> k.pos,
                                          read |-> read]),
                      !.s.has_parsed_substream = IF read THEN TRUE ELSE @]
    IN  IF Shr(c.s.substream_mask, i) % 2 = 0
        THEN IF end_pos < c.pos
             THEN IF c.overflow_checks THEN Underflow(c)
                  ELSE Bail(c, "UnexpectedEof")
             ELSE Then(Advance(c, end_pos - c.pos),
                       LAMBDA x : Handled(x, FALSE))
        ELSE IF i >= Len(c.f.segment) THEN Bail(c, "UnexpectedEof")
        ELSE Then(SubstreamSegment_read(c, c.f.segment[i + 1]),
                  LAMBDA x : Handled(x, TRUE))

RECURSIVE au_segments(_, _)
au_segments(c, i) ==
    IF c.err # "" \/ i >= Unwrap(c.s.substreams) THEN c
    ELSE Then(au_substream([c EXCEPT !.s.substream_index = i], i),
              LAMBDA x : au_segments(x, i + 1))

\* ExtraData::read for extra data that is padding only: a zero header word,
\* then zero words up to the expected end
ExtraData_read(c) ==
    Then(Advance(c, 16),
         LAMBDA x :
            IF x.pos >= expected_au_end_pos(x.s) THEN x
            ELSE Then(Advance(x, 16 * div_ceil(expected_au_end_pos(x.s) - x.pos,
                                                16)),
                      LAMBDA y : IF ~y.f.padding_zero
                                 THEN Bail(y, "PaddingNotZero") ELSE y))

missing_initial_sync_on_format(s) == s.format_sync # MAJOR_SYNC_FBA

\* the test made on a frame without a major sync
missing_initial_sync(s) == ~s.has_parsed_au

AccessUnit_read(c) ==
    LET au_begin(k) ==
            [k EXCEPT !.s =
                [[k.s EXCEPT !.is_major_sync = FALSE,
                             !.input_timing_jump = FALSE,
                             !.output_timing_jump = FALSE,
                             !.peak_data_rate_jump = FALSE]
                 EXCEPT
                    !.prev_access_unit_length =
                        IF ~k.s.has_valid_branch THEN k.s.access_unit_length ELSE @,
                    !.prev_advance =
                        IF ~k.s.has_valid_branch THEN k.s.advance ELSE @,
                    !.prev_fifo_duration =
                        IF ~k.s.has_valid_branch THEN k.s.fifo_duration ELSE @,
                    !.prev_input_timing =
                        IF ~k.s.has_valid_branch THEN k.s.input_timing ELSE @,
                    !.prev_unwrapped_input_timing =
                        IF ~k.s.has_valid_branch
                        THEN k.s.unwrapped_input_timing ELSE @,
                    !.prev_peak_data_rate =
                        IF ~k.s.has_valid_branch THEN k.s.peak_data_rate ELSE @]]
        \* check_nibble, access_unit_length, input_timing
        au_header(k) ==
            Then(Advance(k, 32),
                 LAMBDA x :
                    [x EXCEPT
                        !.s.input_timing = x.f.input_timing,
                        !.s.first_input_timing =
                            IF ~x.s.has_parsed_au THEN x.f.input_timing ELSE @,
                        !.s.unwrapped_input_timing =
                            unwrap_input_timing(x.f.input_timing,
                                                x.s.output_timing_deviation,
                                                x.s.prev_unwrapped_input_timing),
                        !.s.access_unit_length = x.f.access_unit_length])
        \* the 32 bits peeked at after the header
        au_sync(k) ==
            IF k.pos + 32 > k.f.len_bits THEN Bail(k, "UnexpectedEof")
            ELSE IF k.f.sync = MAJOR_SYNC_FBA
            THEN Then(MajorSyncInfo_read(k),
                      LAMBDA x : [x EXCEPT !.s.last_major_sync_index =
                                               x.s.au_counter])
            ELSE IF k.f.sync = "F8726FBB"
            THEN Bail(k, "panic: FBB unimplemented")
            ELSE IF missing_initial_sync(k.s)
            THEN Bail(k, "MissingInitialSync")
            ELSE k
        au_sync_interval(k) ==
            IF k.s.format_sync = MAJOR_SYNC_FBA
               /\ k.s.au_counter - k.s.last_major_sync_index > 128
            THEN Issue(k, "Warn", "FbaSyncTooFar") ELSE k
        au_substreams(k) ==
            IF ~IsSome(k.s.substreams) THEN Bail(k, "NoSubstream")
            ELSE au_directories(k, 0)
        au_parity(k) ==
            IF k.pos % 8 # 0
            THEN Bail([k EXCEPT !.s.has_valid_branch = FALSE], "MisalignedSync")
            ELSE IF ~k.f.nibble_parity_ok
            THEN Bail([k EXCEPT !.s.has_valid_branch = FALSE], "NibbleParity")
            ELSE [k EXCEPT !.s.has_valid_branch = FALSE,
                           !.s.substream_segment_start_pos = k.pos,
                           !.s.has_parsed_substream = FALSE]
        au_extra_data(k) ==
            IF expected_au_end_pos(k.s) > k.pos + 16 THEN ExtraData_read(k)
            ELSE k
        au_finish(k) ==
            IF k.pos <= expected_au_end_pos(k.s)
            THEN [k EXCEPT !.s.has_parsed_au = TRUE,
                           !.s.total_access_unit_length =
                               @ + k.f.access_unit_length,
                           !.s.au_counter = @ + 1]
            ELSE Then(Issue([k EXCEPT !.s.has_parsed_au = TRUE],
                            "Error", "AccessUnitTooLong"),
                      LAMBDA x : [x EXCEPT !.s.au_counter = @ + 1])
    IN  Then(Then(Then(Then(Then(Then(Then(Then(
            Then(au_begin(c), au_header), au_sync), au_sync_interval), check_fifo),
            au_substreams), au_parity),
            LAMBDA x : au_segments(x, 0)), au_extra_data), au_finish)

\* Parser::parse(frame): the reader starts at the frame's first bit
Parser_parse(state, frame, overflow_checks) ==
    AccessUnit_read(Reading(state, frame, overflow_checks))

\* Parser::set_required_presentations
Parser_set_required_presentations(state, required_presentations) ==
    [state EXCEPT
        !.required_presentations = required_presentations,
        !.substream_mask =
            IF IsSome(state.presentation_map)
            THEN substream_mask_by_required_presentations(
                     Unwrap(state.presentation_map), required_presentations)
            ELSE @]
-----------------------------------------------------------------------------
(* Frames handed to Parser::parse.  A frame is laid out as the bitstream    *)
(* lays it out: 32 header bits, the major sync info when there is one, one *)
(* 16-bit directory entry per substream, then the segments, each closed by *)
(* its parity and CRC bytes, at the offsets its directory entry gives.     *)

RECURSIVE BlockBits(_, _)
BlockBits(block, n) ==
    IF n > Len(block) THEN 0 ELSE block[n].len_bits + 1 + BlockBits(block, n + 1)

\* the 16-bit words segments 1..i take: the blocks, the terminator words when
\* there are any, and the parity and CRC bytes
RECURSIVE EndPtr(_, _)
EndPtr(segment, i) ==
    IF i = 0 THEN 0
    ELSE EndPtr(segment, i - 1)
            + div_ceil(BlockBits(segment[i].block, 1), 16)
            + (IF segment[i].has_terminator THEN 2 ELSE 0) + 1

\* a frame of the stream.  A variation names what the frame differs in from a
\* well-formed one.  The first block of a segment carries the restart header
\* on a major sync (that of a two-channel substream: 120 bits), the others
\* are short.
ParserFrame(substreams, major, input_timing, output_timing, peak_data_rate, variation) ==
    LET VariationWord(i) ==
            IF variation = "word_a" /\ i = 2 THEN RestartSyncWord_A
            ELSE IF variation = "word_b" /\ i = 3 THEN RestartSyncWord_B
            ELSE IF variation = "word_c" /\ i = 2 THEN RestartSyncWord_C
            ELSE IF variation = "word_d" /\ i = 0 THEN RestartSyncWord_C + 1
            ELSE IF variation = "word_e" /\ i = 1 THEN RestartSyncWord_A
            ELSE IF i = 0 THEN RestartSyncWord_A
            ELSE IF i = 3 THEN RestartSyncWord_C
            ELSE RestartSyncWord_B
        FrameBlocks(word, blocks, block_size) ==
            SubSeq([n \in 1..blocks |->
                IF n = 1
                THEN [len_bits |-> IF major THEN 350 ELSE 79,
                      restart_header |->
                          IF major
                          THEN Some([restart_sync_word |-> word,
                                     output_timing |-> output_timing,
                                     max_bits |-> 24, max_bits_repeat |-> 24,
                                     hires_output_timing |-> FALSE,
                                     len_bits |-> 120, crc_ok |-> TRUE])
                          ELSE None,
                      block_size |-> Some(block_size)]
                ELSE [len_bits |-> 47, restart_header |-> None,
                      block_size |-> None]],
                   1, blocks)
        FrameSegments ==
            SubSeq([n \in 1..substreams |->
                [block |->
                    FrameBlocks(VariationWord(n - 1),
                                IF n # 1 THEN 1
                                ELSE IF variation = "blocks2" THEN 2
                                ELSE IF variation = "blocks3" THEN 3
                                ELSE IF variation = "blocks4" THEN 4 ELSE 1,
                                IF n = 1 /\ variation = "odd_block_size"
                                THEN 20 ELSE 40),
                 has_terminator |-> n = 1 /\ variation = "zero_samples",
                 terminator_a |-> TERMINATOR_A,
                 zero_samples_indicated |->
                    n = 1 /\ variation = "zero_samples",
                 zero_samples |->
                    IF n = 1 /\ variation = "zero_samples" THEN 8 ELSE 0,
                 terminator_b |-> TERMINATOR_B,
                 parity_ok |-> TRUE, crc_ok |-> TRUE]], 1, substreams)
        FrameOf(segment) ==
            [sync |-> IF major THEN MAJOR_SYNC_FBA ELSE "00000000",
             input_timing |-> input_timing,
             ms |-> [audio_sampling_frequency_1 |-> 0, signature |-> 46930,
                     flags |-> 0, variable_rate |-> TRUE,
                     peak_data_rate |-> peak_data_rate,
                     substreams |-> substreams,
                     extended_substream_info |->
                        IF substreams = 4 THEN 3 ELSE 0,
                     substream_info |-> IF substreams = 4 THEN 252 ELSE 12,
                     len_bits |-> 224, crc_ok |-> TRUE],
             directory |->
                SubSeq([n \in 1..substreams |->
                    [extra_substream_word |-> FALSE,
                     restart_nonexistent |-> ~major,
                     crc_present |-> TRUE,
                     substream_end_ptr |->
                         IF variation = "short_end" /\ n = 1
                         THEN EndPtr(segment, n) - 1
                         ELSE EndPtr(segment, n)]],
                       1, substreams),
             nibble_parity_ok |-> variation # "nibble_parity",
             segment |-> segment,
             padding_zero |-> TRUE,
             access_unit_length |->
                2 + (IF major THEN 14 ELSE 0) + substreams
                  + EndPtr(segment, substreams),
             len_bits |->
                16 * (2 + (IF major THEN 14 ELSE 0) + substreams
                        + EndPtr(segment, substreams))]
    IN  CHOOSE f \in {FrameOf(segment) : segment \in {FrameSegments}} : TRUE

\* no parse() call made yet
NoParse == [called |-> FALSE, f |-> << >>, err |-> "", log |-> {},
            ends |-> << >>, restarts |-> << >>]

\* one substream's machine before its first update, with what the caller
\* holds: the value update_hires_output_timing() stored, the au_counter, and
\* the serial fields assembled since the machine last started over
HiresRun_default ==
    [st |-> HiresOutputTimingState_default, published |-> None, au |-> 0,
     since |-> << >>, field_end |-> FALSE, warn |-> None, panicked |-> FALSE]

\* the caller's record after a call of update() that returned r made with
\* hires_present = bit
HiresRunAfter(run, bit, r) ==
    IF r.panic THEN [run EXCEPT !.panicked = TRUE, !.field_end = FALSE]
    ELSE [st |-> r.self,
          published |-> IF IsSome(r.publish) THEN r.publish ELSE run.published,
          au |-> run.au + 1,
          since |-> IF r.self.state_index = 0 \/ IsSome(r.warn) THEN << >>
                    ELSE IF run.st.state_index = 15 /\ ~bit
                    THEN Append(run.since,
                                [timing |-> run.st.timing,
                                 au_index |-> run.st.au_index,
                                 au_output_timing |-> run.st.au_output_timing])
                    ELSE run.since,
          field_end |-> run.st.state_index = 15 /\ ~bit,
          warn |-> r.warn, panicked |-> FALSE]

-----------------------------------------------------------------------------
(* process/decode.rs : Decoder                                             *)
(*                                                                         *)
(* An access unit is given by what decode_access_unit() reads of it apart  *)
(* from the blocks: its major sync info, if it has one, and for each of    *)
(* its substream segments the zero_samples its terminator indicates, if it *)
(* indicates any.  Decoding the blocks of substream i is recorded as i;    *)
(* the sample buffers, channel labels, object audio metadata and the fail  *)
(* level are left out.                                                     *)

DecoderState_default ==
    [valid |-> FALSE, counter |-> 0, samples_per_au |-> 0,
     presentation_map |-> None, presentation |-> 0,
     substreams |-> 0, substream_mask |-> 0, zero_samples |-> 0]

\* MajorSyncInfo::update_decoder_state, with FormatInfo::update_decoder_state
MajorSyncInfo_update_decoder_state(s, ms) ==
    [s EXCEPT
        !.samples_per_au = ms.samples_per_au,
        !.valid = @ /\ s.substreams = ms.substreams,
        !.substreams = ms.substreams,
        !.presentation_map =
            Some(PresentationMap_with_substream_info(
                     ms.substream_info, ms.extended_substream_info))]

AccessUnit_update_decoder_state(s, access_unit) ==
    IF IsSome(access_unit.major_sync_info)
    THEN MajorSyncInfo_update_decoder_state(
             s, Unwrap(access_unit.major_sync_info))
    ELSE s

\* presentations[presentation] = true on an array of MAX_PRESENTATIONS
update_presentation(d, presentation) ==
    IF ~IsSome(d.s.presentation_map)
    THEN [d EXCEPT !.err = "Presentation map not initialized"]
    ELSE IF presentation >= MAX_PRESENTATIONS
    THEN [d EXCEPT !.err = "panic: index out of bounds"]
    ELSE LET presentation_map == Unwrap(d.s.presentation_map)
             type == presentation_type_by_index(presentation_map, presentation)
         IN  [d EXCEPT
                !.s.substream_mask =
                    substream_mask_by_required_presentations(
                        presentation_map,
                        [i \in 1..MAX_PRESENTATIONS |-> i = presentation + 1]),
                !.s.presentation =
                    IF type.tag = "Invalid"
                    THEN IF ~d.s.valid
                         THEN Unwrap(max_independent_presentation(
                                         presentation_map))
                         ELSE @
                    ELSE IF type.tag = "CopyOf" THEN type.of
                    ELSE presentation]

\* for i in 0..=self.presentation, the substreams the mask lets through
decode_substreams(s) ==
    {i \in 0..s.presentation : Shr(s.substream_mask, i) % 2 # 0}

\* the loop over the substreams: access_unit.substream_segment[i] is read
\* for each, the terminator's zero_samples is kept for i == presentation
decode_loop(d, access_unit, presentation) ==
    [d EXCEPT
        !.decoded = decode_substreams(d.s),
        !.s.zero_samples =
            IF presentation \in decode_substreams(d.s)
               /\ IsSome(access_unit.substream_segment[presentation + 1])
            THEN Unwrap(access_unit.substream_segment[presentation + 1])
            ELSE @,
        !.s.valid = TRUE,
        !.s.counter = @ + 1]

\* for block in substream_segment.block: block.update_decoder_state() and
\* decode().  ss is the substream's block_size and decoded_sample_len, with
\* the error ("" while running) and a record of each decode() made:
\* rematrix_buffer[decoded_sample_len..] and output_buffer[decoded_sample_len..]
\* are indexed by 0..block_size - 1 on arrays of 160 rows
RECURSIVE decode_blocks(_, _, _)
decode_blocks(ss, block, n) ==
    IF n > Len(block) \/ ss.err # "" THEN ss
    ELSE LET block_size == IF IsSome(block[n].block_size)
                           THEN Unwrap(block[n].block_size) ELSE ss.block_size
         IN  decode_blocks(
                 IF ss.decoded_sample_len + block_size > 160
                 THEN [ss EXCEPT !.block_size = block_size,
                                 !.err = "panic: index out of bounds"]
                 ELSE [block_size |-> block_size,
                       decoded_sample_len |->
                           ss.decoded_sample_len + block_size,
                       err |-> "",
                       decodes |-> Append(ss.decodes,
                           [block_size |-> block_size,
                            decoded_sample_len |-> ss.decoded_sample_len])],
                 block, n + 1)

\* a call in progress is the state, the error being returned ("" while
\* running) and the substreams decoded so far
decode_access_unit(s, access_unit, presentation) ==
    LET updated == [s |-> AccessUnit_update_decoder_state(s, access_unit),
                    err |-> "", decoded |-> {}]
        presented == IF ~updated.s.valid
                     THEN update_presentation(updated, presentation)
                     ELSE updated
    IN  IF presented.err # "" THEN presented
        ELSE decode_loop(presented, access_unit, presentation)

\* what decode_presentation() returns: sample_length is None on an Err;
\* samples_per_au - zero_samples is a usize difference, below zero it aborts
\* or wraps (a negative value stands for the value wrapped)
Decoder_decode_presentation(s, access_unit, presentation, checked) ==
    LET d == decode_access_unit(s, access_unit, presentation) IN
    IF d.err # "" THEN [s |-> d.s, err |-> d.err, decoded |-> d.decoded,
                        sample_length |-> None]
    ELSE IF d.s.samples_per_au < d.s.zero_samples /\ checked
    THEN [s |-> d.s, err |-> "panic: attempt to subtract with overflow",
          decoded |-> d.decoded, sample_length |-> None]
    ELSE [s |-> d.s, err |-> "", decoded |-> d.decoded,
          sample_length |-> Some(d.s.samples_per_au - d.s.zero_samples)]

\* the streams the caller decodes: the major sync info of each, with
\* substream_info values the parser knows
DecoderStreams ==
    << [substreams |-> 1, substream_info |-> 20, extended_substream_info |-> 0,
        samples_per_au |-> BASE_SAMPLES_PER_AU],
       [substreams |-> 2, substream_info |-> 36, extended_substream_info |-> 0,
        samples_per_au |-> BASE_SAMPLES_PER_AU],
       [substreams |-> 3, substream_info |-> 124, extended_substream_info |-> 0,
        samples_per_au |-> BASE_SAMPLES_PER_AU],
       [substreams |-> 4, substream_info |-> 252, extended_substream_info |-> 3,
        samples_per_au |-> BASE_SAMPLES_PER_AU] >>

\* the access units of a stream: with or without major sync, the
\* terminators of all its substreams indicating the same zero_samples or
\* none: fewer than samples_per_au, or more (the parser warns and goes on);
\* substream_segment is an array of MAX_PRESENTATIONS, segment i at i + 1
DecoderAccessUnits(ms) ==
    {[major_sync_info |-> major_sync_info,
      substream_segment |->
          [i \in 1..MAX_PRESENTATIONS |->
              IF i <= ms.substreams THEN zero_samples ELSE None]] :
        major_sync_info \in {None, Some(ms)},
        zero_samples \in {None, Some(5), Some(BASE_SAMPLES_PER_AU + 5)}}

\* a Decoder before its first call, with what its caller holds: the stream
\* it decodes, the calls made, and the latest call and what it returned
DecoderRun_default ==
    [st |-> DecoderState_default, stream |-> 1, calls |-> 0,
     last_decode |-> [called |-> FALSE, access_unit |-> << >>,
                      presentation |-> 0, err |-> "", decoded |-> {},
                      sample_length |-> None],
     panicked |-> FALSE]

\* the caller's record after decode_presentation(access_unit, presentation)
\* returned r
DecoderRunAfter(run, access_unit, presentation, r) ==
    [run EXCEPT
        !.st = r.s,
        !.calls = @ + 1,
        !.last_decode = [called |-> TRUE, access_unit |-> access_unit,
                         presentation |-> presentation, err |-> r.err,
                         decoded |-> r.decoded,
                         sample_length |-> r.sample_length],
        !.panicked = r.err \in {"panic: index out of bounds",
                                "panic: attempt to subtract with overflow"}]

\* a pair of bytes read from a major sync and, once built, its
\* PresentationMap
MapRun_default ==
    [substream_info |-> 0, extended_substream_info |-> 0, map |-> None]

-----------------------------------------------------------------------------
(* cli/decode : cmd_decode and the decoder thread it spawns                *)
(*                                                                         *)
(* The thread reads the input chunk by chunk and runs process_frames on    *)
(* each; the channel carries Ok(decoded access unit) and Err(error) items  *)
(* to cmd_decode.  A decoded access unit is given by its number in the     *)
(* order sent.  producer is where the thread stands: about to read a       *)
(* chunk, inside process_frames, or done with thread_result; the Sender    *)
(* lives until the thread is done.  consumer is where cmd_decode stands:   *)
(* at rx.recv(), at handler.finalize(), at decode_thread.join(), or        *)
(* returned with result; the Receiver lives until cmd_decode returns.      *)
Pipeline_default ==
    [strict_mode |-> FALSE,
     producer |-> "read", thread_result |-> "", chunks |-> 0,
     send_calls |-> 0, sent |-> 0, error_sent |-> FALSE,
     queue |-> << >>,
     consumer |-> "recv", handled |-> << >>,
     finalized |-> FALSE, joined |-> FALSE, result |-> ""]

process_frames_decoded_send_unchecked(p) ==
    [p EXCEPT !.send_calls = @ + 1,
              !.sent = IF p.consumer = "returned" THEN @ ELSE @ + 1,
              !.queue = IF p.consumer = "returned" THEN @
                        ELSE Append(@, [ok |-> TRUE, au |-> p.sent + 1])]

\* process_frames on Ok(decoded): ctx.tx.send(Ok(decoded)) fails once the
\* Receiver is gone, and then process_frames returns Ok(true), the callback
\* Ok(false), process_chunks breaks and the thread returns Ok(())
process_frames_decoded(p) ==
    IF p.consumer = "returned"
    THEN [p EXCEPT !.send_calls = @ + 1,
                   !.producer = "done", !.thread_result = "Ok"]
    ELSE [p EXCEPT !.send_calls = @ + 1,
                   !.sent = @ + 1,
                   !.queue = Append(@, [ok |-> TRUE, au |-> p.sent + 1])]

cmd_decode_join_unmatched(p) ==
    [p EXCEPT !.consumer = "returned", !.joined = TRUE, !.result = "Ok"]

\* decode_thread.join(): Ok(Ok(())), Ok(Err(e)) or Err(_)
cmd_decode_join(p) ==
    [p EXCEPT !.consumer = "returned",
              !.joined = TRUE,
              !.result = IF p.thread_result = "Ok" THEN "Ok"
                         ELSE IF p.thread_result = "input error"
                         THEN "input error"
                         ELSE "Decode thread panicked"]

-----------------------------------------------------------------------------
(* utils/buffer_pool.rs : BufferPool, as the Extractor uses it             *)
(*                                                                         *)
(* A buffer is its length and capacity.  live are the frames yielded and   *)
(* not yet dropped, each by its number; allocated counts the buffers made  *)
(* by Vec::with_capacity.                                                  *)
PoolRun_default ==
    [pool |-> << >>, max_size |-> 16, buffer_capacity |-> 65536,
     yielded |-> 0, allocated |-> 0, live |-> {}]

\* BufferPool::acquire: pool.pop_front(), or else a new Vec
BufferPool_acquire(self) ==
    IF self.pool # << >>
    THEN [self |-> [self EXCEPT !.pool = Tail(@)],
          buffer |-> Head(self.pool), fresh |-> FALSE]
    ELSE [self |-> self,
          buffer |-> [len |-> 0, capacity |-> self.buffer_capacity],
          fresh |-> TRUE]

-----------------------------------------------------------------------------
(* State: the Extractor's fields, and the caller that feeds it             *)

VARIABLES
    buffer, timestamp, inited, locked, io_counter, substreams,
    error_count, frames_processed,
    scenario,     \* which stream the caller is feeding
    pos,          \* bytes of it pushed so far
    whole,        \* the stream was pushed in one push_bytes call
    disciplined,  \* every push so far came after the iterator was drained
    last,         \* what the latest next() returned, "Pushed" after a push
    frames,       \* the Ok(Frame) items yielded so far, in order
    parser,           \* the Parser's ParserState
    overflow_checks,  \* the build aborts on integer overflow (debug profile)
    parse_calls,      \* calls of parse() so far
    last_parse,       \* the frame of the latest parse() and what it returned
    hires_run,        \* one substream's hires timing machine and its caller
    decoder_run,      \* a Decoder and its caller
    map_run,          \* a (substream_info, extended_substream_info) pair and its map
    pipeline,         \* cmd_decode, its decoder thread and the channel between
    pool_run          \* the Extractor's BufferPool and the frames alive

extractor_side == <<buffer, timestamp, inited, locked, io_counter, substreams,
                    error_count, frames_processed,
                    scenario, pos, whole, disciplined, last, frames>>
parser_side == <<parser, overflow_checks, parse_calls, last_parse>>
timing_side == <<hires_run>>
decoder_side == <<decoder_run>>
aux_side == <<map_run, pipeline, pool_run>>
vars == <<buffer, timestamp, inited, locked, io_counter, substreams,
          error_count, frames_processed,
          scenario, pos, whole, disciplined, last, frames,
          parser, overflow_checks, parse_calls, last_parse, hires_run,
          decoder_run, map_run, pipeline, pool_run>>

\* the Extractor as a value
Self ==
    [buffer |-> buffer, timestamp |-> timestamp, inited |-> inited,
     locked |-> locked, io_counter |-> io_counter, substreams |-> substreams,
     error_count |-> error_count, frames_processed |-> frames_processed,
     fail_on_warning |-> FALSE]

\* store an Extractor value into the primed fields
Becomes(self) ==
    /\ buffer' = self.buffer
    /\ timestamp' = self.timestamp
    /\ inited' = self.inited
    /\ locked' = self.locked
    /\ io_counter' = self.io_counter
    /\ substreams' = self.substreams
    /\ error_count' = self.error_count
    /\ frames_processed' = self.frames_processed

Init ==
    /\ buffer = Extractor_default.buffer
    /\ timestamp = Extractor_default.timestamp
    /\ inited = Extractor_default.inited
    /\ locked = Extractor_default.locked
    /\ io_counter = Extractor_default.io_counter
    /\ substreams = Extractor_default.substreams
    /\ error_count = Extractor_default.error_count
    /\ frames_processed = Extractor_default.frames_processed
    /\ scenario \in DOMAIN Scenarios
    /\ pos = 0
    /\ whole = FALSE
    /\ disciplined = TRUE
    /\ last = "Start"
    /\ frames = << >>
    /\ parser = ParserState_default
    /\ overflow_checks = TRUE
    /\ parse_calls = 0
    /\ last_parse = NoParse
    /\ hires_run = HiresRun_default
    /\ decoder_run = DecoderRun_default
    /\ map_run = MapRun_default
    /\ pipeline = Pipeline_default
    /\ pool_run = PoolRun_default

Remaining == Len(Streams[scenario]) - pos

\* extractor.push_bytes(chunk) with the next k bytes of the stream
PushBytes(k) ==
    /\ k >= 1
    /\ k <= Remaining
    /\ io_counter < MaxPending
    /\ Becomes(push_bytes(Self, SubSeq(Streams[scenario], pos + 1, pos + k)))
    /\ pos' = pos + k
    /\ whole' = (pos = 0 /\ k = Len(Streams[scenario]))
    /\ disciplined' = (disciplined /\ last \in {"Start", "None"})
    /\ last' = "Pushed"
    /\ UNCHANGED <<scenario, frames>>
    /\ UNCHANGED <<parser_side, timing_side, decoder_side, aux_side>>

\* one call of extractor.next()
NextCall ==
    /\ Len(frames) < MaxFrames
    /\ \E r \in {next(Self)} :
        /\ Becomes(r.self)
        /\ last' = r.tag
        /\ frames' = IF r.tag = "Ok"
                     THEN Append(frames,
                                 [timestamp |-> Unwrap(r.frame).timestamp,
                                  data |-> Unwrap(r.frame).data,
                                  substreams |-> r.self.substreams])
                     ELSE frames
    /\ UNCHANGED <<scenario, pos, whole, disciplined>>
    /\ UNCHANGED <<parser_side, timing_side, decoder_side, aux_side>>

Next ==
    \/ \E k \in {1, MaxChunk, Remaining} : PushBytes(k)
    \/ NextCall

Spec == Init /\ [][Next]_vars

TypeOK ==
    /\ io_counter \in 0..MaxPending
    /\ pos \in 0..Len(Streams[scenario])
    /\ Len(frames) <= MaxFrames

-----------------------------------------------------------------------------
(* The Parser and its caller                                               *)

ParserInit ==
    /\ parser = ParserState_default
    /\ parse_calls = 0
    /\ last_parse = NoParse

TimingIdle == hires_run = HiresRun_default
DecoderIdle == decoder_run = DecoderRun_default
AuxIdle ==
    /\ map_run = MapRun_default
    /\ pipeline = Pipeline_default
    /\ pool_run = PoolRun_default

\* the frames a caller may hand to a Parser in state s.  The stream has
\* four substreams.  A well-formed frame continues the input timing of the
\* access unit before it; a major sync may instead change the peak data
\* rate and leap in input timing, with output timing that keeps the latency
\* or that continues the previous restart header's; an access unit without
\* major sync may leap in input timing.  A frame with a variation is
\* well-formed otherwise.
ParserFrames(s) ==
    LET near == (s.input_timing + BASE_SAMPLES_PER_AU) % 65536
        far == (s.input_timing + 5000) % 65536
        peak == IF s.peak_data_rate = 0 THEN 1024 ELSE s.peak_data_rate
        other == IF s.peak_data_rate = 1024 THEN 2048 ELSE 1024
        expected == (s.output_timing_deviation + s.samples_per_au
                        + s.substream_state[1].output_timing_history) % 65536
    IN  {ParserFrame(4, TRUE, near, (near + 100) % 65536, peak, v) :
            v \in {"ok", "blocks2", "blocks3", "blocks4", "odd_block_size",
                   "zero_samples", "short_end", "nibble_parity",
                   "word_a", "word_b", "word_c", "word_d", "word_e"}}
        \cup {ParserFrame(4, TRUE, far, ot, other, "ok") :
                ot \in {(far + 100) % 65536, expected}}
        \cup {ParserFrame(4, FALSE, it, 0, peak, "ok") : it \in {near, far}}
        \cup {ParserFrame(4, FALSE, near, 0, peak, v) :
                v \in {"blocks4", "odd_block_size"}}

\* parser.parse(&frame); a process that panicked makes no further call
Parse ==
    /\ \/ ~last_parse.called
       \/ last_parse.err \notin
            {"panic: FBB unimplemented", "panic: restart_sync_word",
             "panic: attempt to subtract with overflow",
             "panic: attempt to divide by zero"}
    /\ parse_calls < MaxParseCalls
    /\ \E f \in ParserFrames(parser) :
       \E r \in {Parser_parse(parser, f, overflow_checks)} :
        /\ parser' = r.s
        /\ last_parse' = [called |-> TRUE, f |-> f, err |-> r.err,
                          log |-> r.log, ends |-> r.ends,
                          restarts |-> r.restarts]
    /\ parse_calls' = parse_calls + 1
    /\ UNCHANGED overflow_checks

\* parser.set_fail_level(level); the caller configures the Parser before it
\* hands it the first frame
SetFailLevel(level) ==
    /\ parse_calls = 0
    /\ parser.fail_level # level
    /\ parser' = [parser EXCEPT !.fail_level = level]
    /\ UNCHANGED <<overflow_checks, parse_calls, last_parse>>

\* parser.set_required_presentations(&required_presentations)
SetRequiredPresentations(required_presentations) ==
    /\ parse_calls = 0
    /\ parser.required_presentations # required_presentations
    /\ parser' = Parser_set_required_presentations(parser,
                                                   required_presentations)
    /\ UNCHANGED <<overflow_checks, parse_calls, last_parse>>

\* the Extractor of the other specification stays as constructed
ExtractorIdle ==
    /\ buffer = Extractor_default.buffer
    /\ timestamp = Extractor_default.timestamp
    /\ inited = Extractor_default.inited
    /\ locked = Extractor_default.locked
    /\ io_counter = Extractor_default.io_counter
    /\ substreams = Extractor_default.substreams
    /\ error_count = Extractor_default.error_count
    /\ frames_processed = Extractor_default.frames_processed
    /\ scenario = 1
    /\ pos = 0
    /\ whole = FALSE
    /\ disciplined = TRUE
    /\ last = "Start"
    /\ frames = << >>

InitParser ==
    /\ ExtractorIdle
    /\ ParserInit
    /\ TimingIdle
    /\ DecoderIdle
    /\ AuxIdle
    /\ overflow_checks \in BOOLEAN

NextParser ==
    \/ Parse /\ UNCHANGED <<extractor_side, timing_side, decoder_side, aux_side>>
    \/ \E level \in {"Error", "Warn"} :
        SetFailLevel(level) /\ UNCHANGED <<extractor_side, timing_side, decoder_side, aux_side>>
    \/ \E required_presentations \in
            {<<TRUE, TRUE, TRUE, TRUE>>, <<TRUE, FALSE, FALSE, FALSE>>} :
        SetRequiredPresentations(required_presentations)
            /\ UNCHANGED <<extractor_side, timing_side, decoder_side, aux_side>>

SpecParser == InitParser /\ [][NextParser]_vars

-----------------------------------------------------------------------------
(* The hires output timing machine of one substream and its caller: the    *)
(* restart header of each access unit hands it one bit                     *)

\* hires_output_timing_state.update(state, rh.hires_output_timing) at the
\* restart header of access unit au, whose output_timing is the one that
\* advances by samples_per_au from access unit to access unit, or another
UpdateHires ==
    /\ ~hires_run.panicked
    /\ hires_run.au < MaxTimingCalls
    /\ \E bit \in BOOLEAN, output_timing \in
            {(65300 + BASE_SAMPLES_PER_AU * hires_run.au) % 65536, 100} :
       \E r \in {HiresOutputTimingState_update(
                     hires_run.st, hires_run.au, output_timing,
                     BASE_SAMPLES_PER_AU, bit, overflow_checks)} :
        /\ r.self.timing < MaxTiming
        /\ hires_run' = HiresRunAfter(hires_run, bit, r)
    /\ UNCHANGED <<extractor_side, parser_side, decoder_side, aux_side>>

\* state.reset_for_branch() at a valid seamless branch
ResetForBranch ==
    /\ ~hires_run.panicked
    /\ hires_run.st # HiresOutputTimingState_default
    /\ hires_run' = [hires_run EXCEPT !.st = HiresOutputTimingState_default,
                                      !.since = << >>,
                                      !.field_end = FALSE,
                                      !.warn = None]
    /\ UNCHANGED <<extractor_side, parser_side, decoder_side, aux_side>>

InitTiming ==
    /\ ExtractorIdle
    /\ ParserInit
    /\ TimingIdle
    /\ DecoderIdle
    /\ AuxIdle
    /\ overflow_checks \in BOOLEAN

NextTiming == UpdateHires \/ ResetForBranch

SpecTiming == InitTiming /\ [][NextTiming]_vars

-----------------------------------------------------------------------------
(* The Decoder and its caller: one stream's access units, decoded one by   *)
(* one for a presentation the caller names at each call                    *)

\* decoder.decode_presentation(&access_unit, presentation)
DecodePresentation ==
    /\ ~decoder_run.panicked
    /\ decoder_run.calls < MaxDecodeCalls
    /\ \E access_unit \in DecoderAccessUnits(DecoderStreams[decoder_run.stream]),
          presentation \in 0..MAX_PRESENTATIONS :
        decoder_run' =
            DecoderRunAfter(decoder_run, access_unit, presentation,
                            Decoder_decode_presentation(
                                decoder_run.st, access_unit, presentation,
                                overflow_checks))
    /\ UNCHANGED <<extractor_side, parser_side, timing_side, aux_side>>

InitDecoder ==
    /\ ExtractorIdle
    /\ ParserInit
    /\ TimingIdle
    /\ overflow_checks \in BOOLEAN
    /\ AuxIdle
    /\ \E stream \in DOMAIN DecoderStreams :
        decoder_run = [DecoderRun_default EXCEPT !.stream = stream]

SpecDecoder == InitDecoder /\ [][DecodePresentation]_vars

-----------------------------------------------------------------------------
(* PresentationMap built from a pair of bytes                              *)

\* PresentationMap::with_substream_info(substream_info,
\* extended_substream_info)
WithSubstreamInfo ==
    /\ map_run.map = None
    /\ map_run' = [map_run EXCEPT
                      !.map = Some(PresentationMap_with_substream_info(
                                       map_run.substream_info,
                                       map_run.extended_substream_info))]
    /\ UNCHANGED <<extractor_side, parser_side, timing_side, decoder_side>>
    /\ UNCHANGED <<pipeline, pool_run>>

\* substream_info is a u8; of extended_substream_info the low bits matter
InitPresentationMap ==
    /\ ExtractorIdle
    /\ ParserInit
    /\ TimingIdle
    /\ DecoderIdle
    /\ overflow_checks = TRUE
    /\ pipeline = Pipeline_default
    /\ pool_run = PoolRun_default
    /\ \E substream_info \in 0..255,
          extended_substream_info \in 0..MaxExtended :
        map_run = [MapRun_default EXCEPT
                      !.substream_info = substream_info,
                      !.extended_substream_info = extended_substream_info]

SpecPresentationMap == InitPresentationMap /\ [][WithSubstreamInfo]_vars

-----------------------------------------------------------------------------
(* cmd_decode and its decoder thread                                       *)

\* input_reader.read_chunk() in process_chunks (InputReader::new before the
\* first): bytes were read and the callback runs, the input is at its end,
\* or the read fails
ReadChunk ==
    /\ pipeline.producer = "read"
    /\ \E read \in {"chunk", "end of input", "input error"} :
        /\ read = "chunk" => pipeline.chunks < MaxChunks
        /\ pipeline' =
            IF read = "chunk"
            THEN [pipeline EXCEPT !.producer = "frames", !.chunks = @ + 1]
            ELSE [pipeline EXCEPT
                    !.producer = "done",
                    !.thread_result =
                        IF read = "end of input" THEN "Ok" ELSE read]
    /\ UNCHANGED <<extractor_side, parser_side, timing_side, decoder_side>>
    /\ UNCHANGED <<map_run, pool_run>>

\* one turn of the loop of process_frames: extractor.next() and what
\* follows it.  A frame is decoded, or fails in parse() or in
\* decode_presentation(), or aborts the thread; or no frame is left in
\* the chunk.
ProcessFrames ==
    /\ pipeline.producer = "frames"
    /\ \E turn \in {"decoded", "error", "no frame", "panic"} :
        /\ turn = "decoded" => pipeline.sent < MaxSent
        /\ pipeline' =
            IF turn = "decoded" THEN process_frames_decoded(pipeline)
            ELSE IF turn = "error"
            THEN IF ~pipeline.strict_mode THEN pipeline
                 ELSE [pipeline EXCEPT
                        !.send_calls = @ + 1,
                        !.error_sent = TRUE,
                        !.queue = IF pipeline.consumer = "returned" THEN @
                                  ELSE Append(@, [ok |-> FALSE, au |-> 0]),
                        !.producer = "done", !.thread_result = "Ok"]
            ELSE IF turn = "no frame"
            THEN [pipeline EXCEPT !.producer = "read"]
            ELSE [pipeline EXCEPT !.producer = "done",
                                  !.thread_result = "panic"]
    /\ UNCHANGED <<extractor_side, parser_side, timing_side, decoder_side>>
    /\ UNCHANGED <<map_run, pool_run>>

\* rx.recv() in cmd_decode and the match on what it returns: it blocks
\* while the queue is empty and the Sender lives.  handle_decoded_frame
\* may fail.
Recv ==
    /\ pipeline.consumer = "recv"
    /\ pipeline.queue # << >> \/ pipeline.producer = "done"
    /\ \E handler_fails \in BOOLEAN :
        pipeline' =
            IF pipeline.queue = << >>
            THEN [pipeline EXCEPT !.consumer = "finalize"]
            ELSE IF ~Head(pipeline.queue).ok
            THEN [pipeline EXCEPT !.queue = Tail(@),
                                  !.consumer = "returned",
                                  !.result = "decode error"]
            ELSE IF handler_fails
            THEN [pipeline EXCEPT !.queue = Tail(@),
                                  !.consumer = "returned",
                                  !.result = "handler error"]
            ELSE [pipeline EXCEPT !.queue = Tail(@),
                                  !.handled =
                                      Append(@, Head(pipeline.queue).au)]
    /\ UNCHANGED <<extractor_side, parser_side, timing_side, decoder_side>>
    /\ UNCHANGED <<map_run, pool_run>>

\* handler.finalize()?
Finalize ==
    /\ pipeline.consumer = "finalize"
    /\ \E finalize_fails \in BOOLEAN :
        pipeline' =
            IF finalize_fails
            THEN [pipeline EXCEPT !.consumer = "returned",
                                  !.result = "finalize error"]
            ELSE [pipeline EXCEPT !.consumer = "join", !.finalized = TRUE]
    /\ UNCHANGED <<extractor_side, parser_side, timing_side, decoder_side>>
    /\ UNCHANGED <<map_run, pool_run>>

\* match decode_thread.join(): it waits until the thread is done
Join ==
    /\ pipeline.consumer = "join"
    /\ pipeline.producer = "done"
    /\ pipeline' = cmd_decode_join(pipeline)
    /\ UNCHANGED <<extractor_side, parser_side, timing_side, decoder_side>>
    /\ UNCHANGED <<map_run, pool_run>>

InitPipeline ==
    /\ ExtractorIdle
    /\ ParserInit
    /\ TimingIdle
    /\ DecoderIdle
    /\ overflow_checks = TRUE
    /\ map_run = MapRun_default
    /\ pool_run = PoolRun_default
    /\ \E strict_mode \in BOOLEAN :
        pipeline = [Pipeline_default EXCEPT !.strict_mode = strict_mode]

SpecPipeline ==
    InitPipeline /\ [][ReadChunk \/ ProcessFrames \/ Recv \/ Finalize \/ Join]_vars

-----------------------------------------------------------------------------
(* The Extractor's buffer pool and the frames it yields                    *)

\* Extractor::next() yielding a frame: the buffer acquired is filled and
\* turned into the frame's Arc<[u8]>
YieldFrame ==
    /\ pool_run.yielded < MaxPoolFrames
    /\ \E r \in {BufferPool_acquire(pool_run)} :
        pool_run' = [r.self EXCEPT
                        !.yielded = @ + 1,
                        !.allocated = IF r.fresh THEN @ + 1 ELSE @,
                        !.live = @ \cup {pool_run.yielded + 1}]
    /\ UNCHANGED <<extractor_side, parser_side, timing_side, decoder_side>>
    /\ UNCHANGED <<map_run, pipeline>>

\* the caller drops a frame: the last Arc of its data goes, the bytes are
\* freed
DropFrame ==
    /\ \E frame \in pool_run.live :
        pool_run' = [pool_run EXCEPT !.live = @ \ {frame}]
    /\ UNCHANGED <<extractor_side, parser_side, timing_side, decoder_side>>
    /\ UNCHANGED <<map_run, pipeline>>

InitPool ==
    /\ ExtractorIdle
    /\ ParserInit
    /\ TimingIdle
    /\ DecoderIdle
    /\ overflow_checks = TRUE
    /\ AuxIdle

SpecPool == InitPool /\ [][YieldFrame \/ DropFrame]_vars

-----------------------------------------------------------------------------
(* What the caller knows about the stream it feeds                         *)

\* a stream of valid access units: an optional leading timestamp, then
\* intact access units beginning with a major sync
IsValidStream(n) ==
    LET names == Scenarios[n] IN
    /\ \A i \in DOMAIN names : names[i] \in {"TS", "AU1", "AU2"}
    /\ \A i \in DOMAIN names : names[i] = "TS" => i = 1
    /\ \E i \in DOMAIN names : names[i] = "AU1" /\ \A j \in 1..(i - 1) : names[j] = "TS"

\* the stream ends with intact access units that begin at a major sync
EndsWithValidUnits(n) ==
    LET names == Scenarios[n] IN
    /\ Len(names) >= 2
    /\ names[Len(names) - 1] = "AU1"
    /\ names[Len(names)] = "AU2"

\* offset just past piece i of stream n
RECURSIVE PieceEnd(_, _)
PieceEnd(n, i) ==
    IF i = 0 THEN 0 ELSE PieceEnd(n, i - 1) + Len(Pieces[Scenarios[n][i]])

\* access units of stream n that lie completely in its first p bytes
CompleteUnits(n, p) ==
    Cardinality({i \in DOMAIN Scenarios[n] :
                    Scenarios[n][i] # "TS" /\ PieceEnd(n, i) <= p})

\* the frames of a run in which the whole stream is pushed in one call and the
\* iterator is drained to None
RECURSIVE Drain(_, _, _)
DrainItem(r, out, fuel) ==
    IF fuel = 0 \/ r.tag = "None" THEN out
    ELSE Drain(r.self,
               IF r.tag = "Ok" THEN Append(out, Unwrap(r.frame).data) ELSE out,
               fuel - 1)

Drain(self, out, fuel) == DrainItem(next(self), out, fuel)

WholeFrames ==
    [n \in {m \in DOMAIN Scenarios : IsValidStream(m)} |->
        Drain(push_bytes(Extractor_default, Streams[n]), << >>, MaxFrames + 2)]

FrameData == [i \in DOMAIN frames |-> frames[i].data]

-----------------------------------------------------------------------------
(* Properties                                                              *)

\* access_unit_length as the format defines it: low 12 bits of the first
\* big-endian 16-bit word
AccessUnitLength(d) == (256 * d[1] + d[2]) % 4096

\* C1: every yielded frame is access_unit_length * 2 bytes long, the length
\* being the low 12 bits of the frame's first two bytes (a frame too short to
\* hold that word can only be the empty frame of a zero length field).
C1_FrameLength ==
    \A i \in DOMAIN frames :
        LET d == frames[i].data IN
        IF Len(d) >= 2 THEN Len(d) = 2 * AccessUnitLength(d) ELSE Len(d) = 0

C1_Witness ==
    /\ Len(frames) >= 2
    /\ Len(frames[1].data) = 84
    /\ Len(frames[2].data) = 20

\* the major sync info length of a frame: 26, or 28 + 2 * (byte30 >> 4)
MajorSyncInfoLength(d) ==
    IF d[30] % 2 = 0 THEN 26 ELSE 28 + 2 * (d[31] \div 16)

StoredCrcMatches(d) ==
    /\ Len(d) >= 31
    /\ Len(d) >= 6 + MajorSyncInfoLength(d)
    /\ LET m == MajorSyncInfoLength(d) IN
         256 * d[5 + m] + d[6 + m] = crc16_major_sync_info(SubSeq(d, 5, 4 + m))

\* C2: every yielded major-sync frame, found by the unlocked scan or met in
\* locked mode, carries a CRC-16 equal to the CRC of its major sync info.
C2_MajorSyncCrcMatches ==
    \A i \in DOMAIN frames :
        LET d == frames[i].data IN
        (Len(d) >= 6 /\ is_major_sync(d)) => StoredCrcMatches(d)

\* C3: for a stream of valid access units, pushing it in arbitrary chunks and
\* draining the iterator after each push yields the frames of a single push
\* of the whole stream, in order and with none missing.
C3_ChunkingIndependent ==
    (/\ IsValidStream(scenario)
     /\ disciplined
     /\ pos = Len(Streams[scenario])
     /\ last = "None")
    => FrameData = WholeFrames[scenario]

\* C4: next() called after a push while the pushed bytes end inside the next
\* access unit to yield returns Some(Err(InsufficientData)), locked or not.
C4_InsufficientWhenShort ==
    [][(/\ IsValidStream(scenario)
        /\ io_counter > 0
        /\ CompleteUnits(scenario, pos) = Len(frames)
        /\ NextCall)
       => last' = "InsufficientData"]_vars

\* C5: EXAMPLE_DATA + FF FF FF FF + EXAMPLE_DATA + FF FF FF FF pushed in one
\* call yields exactly the 4 access units and then ends with
\* Err(InsufficientData).
C5_SkipInvalidData ==
    [][(/\ Scenarios[scenario] = <<"TS", "AU1", "AU2", "FF", "TS", "AU1", "AU2", "FF">>
        /\ whole
        /\ last # "None"
        /\ last' = "None")
       => (/\ last = "InsufficientData"
           /\ FrameData = <<Pieces.AU1, Pieces.AU2, Pieces.AU1, Pieces.AU2>>)]_vars

C5_Witness ==
    /\ Scenarios[scenario] = <<"TS", "AU1", "AU2", "FF", "TS", "AU1", "AU2", "FF">>
    /\ whole
    /\ last = "None"
    /\ io_counter = 0
    /\ Len(frames) = 4

\* C6: a parity failure or substream-count mismatch met in locked mode and
\* answered with the one-byte resync is reported as an Err item
\* (ParityCheckFailed or SubstreamMismatch) of that next() call.
C6_CorruptionReported ==
    [][(/\ locked
        /\ io_counter > 0
        /\ locked_block(Self).brk
        /\ NextCall)
       => last' \in {"ParityCheckFailed", "SubstreamMismatch"}]_vars

\* C7: when the unlocked scan finds a candidate whose major-sync CRC-16 does
\* not match, the same next() call goes on scanning, so that a valid access
\* unit buffered behind the dropped one is yielded by that call.
C7_CrcFailureContinues ==
    [][(/\ ~locked
        /\ io_counter > 0
        /\ resync(Self).res = "ParityCheckFailed"
        /\ next(resync(Self).self).tag = "Ok"
        /\ NextCall)
       => (last' = "Ok" /\ Len(frames') = Len(frames) + 1)]_vars

\* C8: the Extractor always makes progress: once a stream that ends with
\* complete valid access units starting at a major sync has been pushed and
\* the iterator drained, those access units have been yielded whatever
\* content was buffered in front of them.
C8_Progress ==
    (/\ EndsWithValidUnits(scenario)
     /\ whole
     /\ last = "None"
     /\ io_counter = 0)
    => (/\ Len(frames) >= 2
        /\ frames[Len(frames) - 1].data = Pieces.AU1
        /\ frames[Len(frames)].data = Pieces.AU2)

\* XOR of the bytes v[from .. to-1], 0-based
RECURSIVE XorRange(_, _, _)
XorRange(v, from, to) ==
    IF from >= to THEN 0 ELSE Xor8(At(v, from), XorRange(v, from + 1, to))

\* where the substream directory of an access unit starts
DirectoryStart(v) ==
    IF At(v, 4) = 248 /\ At(v, 5) = 114 THEN 4 + MajorSyncInfoLength(v) + 2 ELSE 4

\* where a directory of n entries that starts at `start` ends: 2 bytes an
\* entry, 2 more when the entry's high bit is set
RECURSIVE DirectoryEnd(_, _, _)
DirectoryEnd(v, start, n) ==
    IF n = 0 THEN start
    ELSE DirectoryEnd(v, start + (IF At(v, start) >= 128 THEN 4 ELSE 2), n - 1)

NibbleFold(p) == Xor8(p \div 16, p) % 16

\* the check nibble of the access unit at the head of v
HeaderParity(v, n, with_major_sync) ==
    LET ds == DirectoryStart(v) IN
    NibbleFold(Xor8(Xor8(XorRange(v, 0, 4),
                         IF with_major_sync THEN XorRange(v, 4, ds) ELSE 0),
                    XorRange(v, ds, DirectoryEnd(v, ds, n))))

\* in a step that yields a frame: the buffer from the first byte of that frame
YieldedFrom ==
    Tail_(buffer,
          Len(buffer) - Len(buffer') - Len(frames'[Len(frames')].data))

\* C9 as claimed: for every yielded frame the XOR of the pre-directory bytes,
\* the major-sync region when present and every directory entry folds to 0xF.
C9_ParityWithMajorSync ==
    [][(NextCall /\ last' = "Ok")
       => HeaderParity(YieldedFrom, substreams', TRUE) = 15]_vars

\* C9 amended: for every yielded frame the XOR of the four header bytes and
\* of every directory entry (2 bytes, 4 when its high bit is set), the major
\* sync region between them left out, folds to 0xF.
C9_ParityOfHeaderAndDirectory ==
    [][(NextCall /\ last' = "Ok")
       => HeaderParity(YieldedFrom, substreams', FALSE) = 15]_vars

C9_Witness ==
    \E i, j \in DOMAIN frames :
        /\ frames[i].data = Pieces.AU1
        /\ frames[j].data = Pieces.AU2

\* C10: when a valid SMPTE timestamp immediately precedes the first major
\* sync, the first frame yielded carries it and no later frame carries one,
\* however the stream was cut into pushes.
C10_TimestampOnFirstFrame ==
    (Scenarios[scenario][1] = "TS" /\ Len(frames) >= 1)
    => (/\ frames[1].timestamp = Timestamp_from_bytes(Pieces.TS)
        /\ \A i \in 2..Len(frames) : frames[i].timestamp = None)

-----------------------------------------------------------------------------
(* Parser claims                                                           *)

\* a step that is one parse() call
ParseStep == parse_calls' = parse_calls + 1

\* C11 as stated: parse() of a frame without a major sync fails with
\* MissingInitialSync exactly when no earlier frame handed to this Parser
\* began with a major sync.
C11_MissingInitialSyncUnlessSyncSeen ==
    [][(ParseStep /\ last_parse'.f.sync # MAJOR_SYNC_FBA)
         => ((last_parse'.err = "MissingInitialSync")
                <=> parser.format_sync # MAJOR_SYNC_FBA)]_vars

\* C11: parse() of a frame without a major sync fails with MissingInitialSync
\* exactly when no earlier parse() of this Parser has read an access unit
\* through its last substream segment and extra data.
C11_MissingInitialSyncUnlessParsed ==
    [][(ParseStep /\ last_parse'.f.sync # MAJOR_SYNC_FBA)
         => ((last_parse'.err = "MissingInitialSync")
                <=> ~parser.has_parsed_au)]_vars

\* a frame without a major sync is accepted after a major-sync frame
C11_Witness ==
    /\ parse_calls = 2
    /\ last_parse.f.sync # MAJOR_SYNC_FBA
    /\ last_parse.err = ""
    /\ parser.has_parsed_au

\* the issues check_fifo raises on the interval between two input timings
TimingErrors ==
    {"TimingTooShort", "TimingTooShortAfterJump",
     "TimingShorterThanPrevious", "TimingShorterThanPreviousAfterJump",
     "DataRateExceeded", "DataRateExceededAfterJump",
     "TimingTooLong", "TimingTooLongAfterJump"}

\* frame f, handed to a Parser in state s that has parsed an access unit which
\* was no seamless branch, lies more than 75 ms after that access unit
Discontinuous(s, f) ==
    /\ s.has_parsed_au
    /\ ~s.has_valid_branch
    /\ (f.input_timing - s.input_timing) % 65536 > samples_per_75ms(s)

PeakChanges(s, f) ==
    f.sync = MAJOR_SYNC_FBA /\ f.ms.peak_data_rate # s.peak_data_rate

C13_StrictWarningsAreErrors ==
    (last_parse.called /\ parser.fail_level = "Warn"
        /\ \E m \in last_parse.log : m[1] = "Warn")
      => last_parse.err # ""

\* C18: every substream the last parse() handled, read or skipped, left the
\* bit cursor substream_end_ptr << 4 bits after the segment region base.
C18_CursorAtSubstreamEnd ==
    last_parse.called =>
        \A n \in 1..Len(last_parse.ends) :
            last_parse.ends[n].pos =
                parser.substream_segment_start_pos
                    + last_parse.f.directory[last_parse.ends[n].substream + 1]
                          .substream_end_ptr * 16

\* an access unit of which one substream was read and the others skipped
C18_Witness ==
    /\ last_parse.called
    /\ last_parse.err = ""
    /\ Len(last_parse.ends) = 4
    /\ \E n \in 1..4 : last_parse.ends[n].read
    /\ \E n \in 1..4 : ~last_parse.ends[n].read

\* the restart sync word the claim allows on substream i
LegalSyncWord(i, word) ==
    \/ i = 0 /\ word = RestartSyncWord_A
    \/ i \in {1, 2} /\ word = RestartSyncWord_B
    \/ i = 3 /\ word = RestartSyncWord_C

\* the restart sync words of the blocks of substream i of frame f
SyncWordsOf(f, i) ==
    {Unwrap(f.segment[i + 1].block[b].restart_header).restart_sync_word :
        b \in {b \in DOMAIN f.segment[i + 1].block :
                   IsSome(f.segment[i + 1].block[b].restart_header)}}

\* C19: a parse() that met a restart sync word not legal for its substream
\* returned an error: every restart header of a substream that an accepted
\* parse() read carries the word legal for that substream, and no parse()
\* panicked on a sync word.
C19_OnlyLegalSyncWords ==
    last_parse.called =>
        /\ last_parse.err # "panic: restart_sync_word"
        /\ last_parse.err = "" =>
              \A n \in 1..Len(last_parse.ends) :
                  last_parse.ends[n].read =>
                      \A w \in SyncWordsOf(last_parse.f,
                                           last_parse.ends[n].substream) :
                          LegalSyncWord(last_parse.ends[n].substream, w)

\* the number of blocks of the segment the last parse() was reading when it
\* returned: substreams are handled in order, so it is the one after those
\* recorded in ends
BlocksOfSegmentInHand ==
    IF Len(last_parse.ends) < Len(last_parse.f.segment)
    THEN Len(last_parse.f.segment[Len(last_parse.ends) + 1].block) ELSE 0

\* C20 as stated: segments of 1 to 4 blocks are not rejected for their
\* number of blocks.
C20_UpToFourBlocks ==
    (last_parse.called /\ last_parse.err = "TooManyBlocks")
        => BlocksOfSegmentInHand > 4

\* C20: every segment parse() read to its end has 1 to 3 blocks, and parse()
\* fails with TooManyBlocks only on a segment of more than 3 blocks.
C20_UpToThreeBlocks ==
    last_parse.called =>
        /\ \A n \in 1..Len(last_parse.ends) :
              last_parse.ends[n].read =>
                  Len(last_parse.f.segment[last_parse.ends[n].substream + 1]
                          .block) \in 1..3
        /\ last_parse.err = "TooManyBlocks" => BlocksOfSegmentInHand > 3

\* a parse() accepted a frame after reading a segment of three blocks
C20_Witness ==
    /\ last_parse.called
    /\ last_parse.err = ""
    /\ \E n \in 1..Len(last_parse.ends) :
          /\ last_parse.ends[n].read
          /\ Len(last_parse.f.segment[last_parse.ends[n].substream + 1].block) = 3

-----------------------------------------------------------------------------
(* Hires output timing claims                                              *)

FieldStartTiming(field) ==
    stream_start_timing(field.timing, field.au_output_timing, field.au_index,
                        BASE_SAMPLES_PER_AU)

-----------------------------------------------------------------------------
(* process/decode.rs : presentations and sample lengths                    *)

\* the latest decode_presentation() call returned Ok
Decoded == decoder_run.last_decode.called /\ decoder_run.last_decode.err = ""

\* the presentation decoded for a requested one: the maximal independent
\* one for an Invalid request, j for a CopyOf(j), else the requested one
EffectivePresentation(presentation_map, presentation) ==
    LET type == presentation_type_by_index(presentation_map, presentation) IN
    IF type.tag = "Invalid"
    THEN Unwrap(max_independent_presentation(presentation_map))
    ELSE IF type.tag = "CopyOf" THEN type.of
    ELSE presentation

\* the substreams in the mask of presentation j
SubstreamsOf(presentation_map, j) ==
    {i \in 0..(MAX_PRESENTATIONS - 1) :
        Shr(presentation_map.masks[j + 1], i) % 2 # 0}

\* C14: decode_presentation decodes the substreams of the effective
\* presentation: the requested one when it is available, the maximal
\* independent one when the requested one is Invalid, presentation j when
\* the requested one is CopyOf(j).
C14_DecodesEffectivePresentation ==
    (Decoded /\ decoder_run.last_decode.presentation < MAX_PRESENTATIONS)
        => decoder_run.last_decode.decoded =
               SubstreamsOf(Unwrap(decoder_run.st.presentation_map),
                            EffectivePresentation(
                                Unwrap(decoder_run.st.presentation_map),
                                decoder_run.last_decode.presentation))

\* the zero_samples the access unit's terminator indicates on the substream
\* of the presentation decoded, 0 when it indicates none
IndicatedZeroSamples(access_unit, j) ==
    IF j + 1 \in DOMAIN access_unit.substream_segment
       /\ IsSome(access_unit.substream_segment[j + 1])
    THEN Unwrap(access_unit.substream_segment[j + 1])
    ELSE 0

\* C15: for every decoded access unit, sample_length is samples_per_au minus
\* the trailing zero samples that access unit's terminator indicates on the
\* decoded presentation's substream, and samples_per_au when it indicates
\* none.
C15_SampleLengthOfThisAccessUnit ==
    Decoded
        => decoder_run.last_decode.sample_length =
               Some(decoder_run.st.samples_per_au
                        - IndicatedZeroSamples(
                              decoder_run.last_decode.access_unit,
                              decoder_run.st.presentation))

\* C16: decode_presentation called with a presentation index outside 0..=3
\* returns the typed error for an invalid presentation index, and neither
\* decodes nor aborts (looked at once a major sync has given the decoder its
\* presentation map).
C16_InvalidPresentationIsTypedError ==
    (decoder_run.last_decode.called
        /\ IsSome(decoder_run.st.presentation_map)
        /\ decoder_run.last_decode.presentation >= MAX_PRESENTATIONS)
        => /\ decoder_run.last_decode.err = "InvalidPresentation"
           /\ decoder_run.last_decode.decoded = {}
           /\ ~decoder_run.panicked

-----------------------------------------------------------------------------
(* process/mod.rs : PresentationMap                                        *)

\* the map built from the pair in hand
MapInHand == Unwrap(map_run.map)

\* mask i of the map has a bit at or above i
ReachesOwnBit(m, i) == Shr(m.masks[i + 1], i) # 0
\* mask j of the map contains bit i
ContainsBit(m, j, i) == Shr(m.masks[j + 1], i) % 2 = 1

\* the presentations above i that reach their own bit and contain bit i
DownmixesOf(m, i) ==
    {j \in (i + 1)..(MAX_PRESENTATIONS - 1) :
        ReachesOwnBit(m, j) /\ ContainsBit(m, j, i)}
\* the presentations below i present in mask i
CopiesOf(m, i) == {j \in 0..(i - 1) : ContainsBit(m, i, j)}

Lowest(S) == CHOOSE x \in S : \A y \in S : x <= y
Highest(S) == CHOOSE x \in S : \A y \in S : x >= y

\* masks and max_independent_presentation as the claim gives them, and its
\* example
MasksAndMaxAsListed ==
    /\ MapInHand.masks =
           << 1,
              (map_run.substream_info \div 4) % 4,
              (map_run.substream_info \div 16) % 8,
              Or4(AndBits(map_run.substream_info \div 16, 8, 4),
                  XorBits(7, 7 \div (2 ^ (map_run.extended_substream_info % 4)),
                          3)) >>
    /\ max_independent_presentation(MapInHand) =
           Some(Highest({i \in 0..(MAX_PRESENTATIONS - 1) :
                            ReachesOwnBit(MapInHand, i)}))
    /\ (map_run.substream_info = 204 /\ map_run.extended_substream_info = 1)
        => /\ MapInHand.masks = <<1, 3, 4, 12>>
           /\ max_independent_presentation(MapInHand) = Some(3)
           /\ presentation_type_by_index(MapInHand, 0)
                  = [tag |-> "DownmixOf", of |-> 1]
           /\ presentation_type_by_index(MapInHand, 1)
                  = [tag |-> "Independent", of |-> 0]
           /\ presentation_type_by_index(MapInHand, 2)
                  = [tag |-> "DownmixOf", of |-> 3]

\* C21 as stated: for every pair of bytes the masks are [1, (si>>2)&3,
\* (si>>4)&7, ((si>>4)&8) | (7 ^ (7 >> (esi&3)))], max_independent_presentation
\* is the highest index whose mask has a bit at or above it, and presentation
\* i is DownmixOf(j) for the lowest j > i that reaches its own bit and whose
\* mask contains bit i, Independent when its mask reaches bit i and there is
\* no such j, CopyOf(j) for the highest j < i in its mask when its mask does
\* not reach bit i, Invalid otherwise.
C21_TypesAsListed ==
    IsSome(map_run.map) =>
        /\ MasksAndMaxAsListed
        /\ \A i \in 0..(MAX_PRESENTATIONS - 1) :
            presentation_type_by_index(MapInHand, i) =
                IF DownmixesOf(MapInHand, i) # {}
                THEN [tag |-> "DownmixOf", of |-> Lowest(DownmixesOf(MapInHand, i))]
                ELSE IF ReachesOwnBit(MapInHand, i)
                THEN [tag |-> "Independent", of |-> 0]
                ELSE IF CopiesOf(MapInHand, i) # {}
                THEN [tag |-> "CopyOf", of |-> Highest(CopiesOf(MapInHand, i))]
                ELSE [tag |-> "Invalid", of |-> 0]

\* C21, amended: as C21, with presentation i DownmixOf(j) only when its own
\* mask reaches bit i; a presentation whose mask does not reach bit i is
\* CopyOf or Invalid even if a higher mask contains bit i.
C21_TypesByOwnBit ==
    IsSome(map_run.map) =>
        /\ MasksAndMaxAsListed
        /\ \A i \in 0..(MAX_PRESENTATIONS - 1) :
            presentation_type_by_index(MapInHand, i) =
                IF ReachesOwnBit(MapInHand, i)
                THEN IF DownmixesOf(MapInHand, i) # {}
                     THEN [tag |-> "DownmixOf",
                           of |-> Lowest(DownmixesOf(MapInHand, i))]
                     ELSE [tag |-> "Independent", of |-> 0]
                ELSE IF CopiesOf(MapInHand, i) # {}
                THEN [tag |-> "CopyOf", of |-> Highest(CopiesOf(MapInHand, i))]
                ELSE [tag |-> "Invalid", of |-> 0]

\* the map of (0b11001100, 0b00000001) has been built
C21_Witness ==
    /\ map_run.substream_info = 204
    /\ map_run.extended_substream_info = 1
    /\ IsSome(map_run.map)
    /\ MapInHand.masks = <<1, 3, 4, 12>>

\* C28: each Ok(Frame) the Extractor yields removes at least 6 bytes from its
\* buffer and holds at least 6 bytes, so that Frame::is_major_sync, which
\* reads data[4] and data[5], is defined on it.
C28_YieldConsumesSixBytes ==
    [][(NextCall /\ last' = "Ok")
       => (/\ Len(buffer') + Len(frames'[Len(frames')].data) <= Len(buffer)
           /\ Len(buffer') + 6 <= Len(buffer)
           /\ Len(frames'[Len(frames')].data) >= 6)]_vars

\* the substream mask the decoder resolves for a requested presentation
ResolvedMask(presentation_map, presentation) ==
    substream_mask_by_required_presentations(
        presentation_map,
        [i \in 1..MAX_PRESENTATIONS |-> i = presentation + 1])

\* C29: each decode_presentation call decodes the presentation index passed
\* to that call: when the index differs from that of the call before, the
\* effective presentation and the substream mask are resolved again, for the
\* new index, before decoding.
C29_ResolvedAtEachCall ==
    [][(/\ DecodePresentation
        /\ decoder_run.last_decode.called
        /\ Decoded'
        /\ decoder_run'.last_decode.presentation < MAX_PRESENTATIONS
        /\ decoder_run'.last_decode.presentation
                # decoder_run.last_decode.presentation)
       => (/\ decoder_run'.st.presentation =
                 EffectivePresentation(
                     Unwrap(decoder_run'.st.presentation_map),
                     decoder_run'.last_decode.presentation)
           /\ decoder_run'.st.substream_mask =
                 ResolvedMask(Unwrap(decoder_run'.st.presentation_map),
                              decoder_run'.last_decode.presentation))]_vars

\* C30: when the field completed by a call of update() is lower in timing
\* than the field accepted before it, the call reports a sequence error and
\* returns: the difference timing - prev_timing is not computed below zero,
\* no call aborts, and state_index stays within 0..=15.
C30_LowerFieldIsSequenceError ==
    [][(/\ hires_run.st.state_index = 15
        /\ hires_run.st.counter >= 1
        /\ hires_run.st.timing < hires_run.st.prev_timing
        /\ hires_run'.field_end \/ hires_run'.panicked)
       => (/\ ~hires_run'.panicked
           /\ hires_run'.warn = Some("High-resolution timing sequence error")
           /\ hires_run'.st.state_index \in 0..15)]_vars

-----------------------------------------------------------------------------
(* structs/restart_header.rs : the reset at a restart header               *)

\* the fields of a substream's parser state the claim lets survive: the
\* hires-timing accumulator, the DRC accumulator and the output-timing
\* history ring, and the one the header itself sets
ClaimedSurvivors ==
    {"hires_output_timing_state", "drc_count", "output_timing_history",
     "restart_sync_word"}

\* those the struct literal of the reset names besides
OtherSurvivors ==
    {"crc_present", "substream_end_ptr", "latency", "prev_latency"}

\* C26 as stated: a restart header read returns every field of the
\* substream's parser state to its default, except the hires-timing
\* accumulator, the DRC accumulator, the output-timing history ring and the
\* fields the header sets.
C26_ResetsAllButThree ==
    \A n \in 1..Len(last_parse.restarts) :
        \A field \in DOMAIN ParserSubstreamState_default
                        \ ClaimedSurvivors :
            last_parse.restarts[n].after[field] =
                ParserSubstreamState_default[field]

\* C26: a restart header read returns every field of the substream's parser
\* state to its default, except the hires-timing accumulator, the DRC
\* accumulator, the output-timing history ring, the directory entry's
\* crc_present and substream_end_ptr, latency and prev_latency, which keep
\* their values, and the fields the header sets.
C26_ResetsAllButNamed ==
    \A n \in 1..Len(last_parse.restarts) :
        /\ \A field \in DOMAIN ParserSubstreamState_default
                          \ (ClaimedSurvivors \cup OtherSurvivors) :
              last_parse.restarts[n].after[field] =
                  ParserSubstreamState_default[field]
        /\ \A field \in (ClaimedSurvivors \cup OtherSurvivors)
                          \ {"restart_sync_word"} :
              last_parse.restarts[n].after[field] =
                  last_parse.restarts[n].before[field]
        /\ last_parse.restarts[n].after.restart_sync_word =
              Unwrap(last_parse.f.segment[last_parse.restarts[n].substream + 1]
                         .block[1].restart_header).restart_sync_word

\* a restart header was read on a substream whose block size was not the
\* default and whose surviving fields were not at their defaults
C26_Witness ==
    \E n \in 1..Len(last_parse.restarts) :
        /\ last_parse.restarts[n].before.block_size
              # ParserSubstreamState_default.block_size
        /\ last_parse.restarts[n].after.block_size
              = ParserSubstreamState_default.block_size
        /\ last_parse.restarts[n].before.drc_count > 1
        /\ last_parse.restarts[n].before.latency # 0
        /\ last_parse.restarts[n].before.output_timing_history # 0
        /\ last_parse.restarts[n].before.crc_present

-----------------------------------------------------------------------------
(* process/decode.rs : the blocks of an accepted access unit               *)

\* the decode() calls the Decoder makes on substream i of the frame parsed
\* last; every first block of a segment carries its block size, so the size
\* the substream starts with is the default
DecodesOf(i) ==
    decode_blocks([block_size |-> 8, decoded_sample_len |-> 0, err |-> "",
                   decodes |-> << >>],
                  last_parse.f.segment[i + 1].block, 1)

\* C27: for every access unit the Parser accepts, at each decode() of a
\* block of one of its substreams the samples already decoded plus the
\* block size do not exceed samples_per_au, and no index into the 160-row
\* sample buffers is out of range.
C27_BlocksFitAccessUnit ==
    (last_parse.called /\ last_parse.err = "")
        => \A n \in 1..Len(last_parse.ends) :
              last_parse.ends[n].read =>
                  /\ DecodesOf(last_parse.ends[n].substream).err = ""
                  /\ \A k \in DOMAIN DecodesOf(last_parse.ends[n].substream)
                                        .decodes :
                        LET d == DecodesOf(last_parse.ends[n].substream)
                                     .decodes[k]
                        IN  d.decoded_sample_len + d.block_size
                                <= parser.samples_per_au

-----------------------------------------------------------------------------
(* cli/decode : the channel between the decoder thread and cmd_decode      *)

\* C22: once cmd_decode has dropped the Receiver, the decoder thread stops
\* at its next send: that send puts nothing into the queue, and from then
\* on the thread is done: it sends no decoded access unit and reads no
\* chunk.
C22_ProducerStopsAtNextSend ==
    [][/\ (pipeline.consumer = "returned"
              /\ pipeline'.send_calls > pipeline.send_calls)
           => (/\ pipeline'.producer = "done"
               /\ pipeline'.sent = pipeline.sent
               /\ pipeline'.queue = pipeline.queue
               /\ pipeline'.chunks = pipeline.chunks)
       /\ pipeline.producer = "done"
           => (/\ pipeline'.producer = "done"
               /\ pipeline'.send_calls = pipeline.send_calls
               /\ pipeline'.sent = pipeline.sent
               /\ pipeline'.chunks = pipeline.chunks)]_vars

\* cmd_decode returned early on a handler error, and the thread, with input
\* left to read, ended at the send of a decoded access unit that failed
C22_Witness ==
    /\ pipeline.consumer = "returned"
    /\ pipeline.result = "handler error"
    /\ pipeline.producer = "done"
    /\ pipeline.thread_result = "Ok"
    /\ ~pipeline.error_sent
    /\ pipeline.send_calls = pipeline.sent + 1
    /\ pipeline.chunks < MaxChunks

\* the producer failed: it sent an error, returned one, or panicked
ProducerFailed ==
    \/ pipeline.error_sent
    \/ pipeline.thread_result \in {"input error", "panic"}

\* cmd_decode returned, and neither the handler nor finalize() failed
ConsumerReturned ==
    /\ pipeline.consumer = "returned"
    /\ pipeline.result \notin {"handler error", "finalize error"}

\* every decoded access unit sent was handled, in the order sent
HandledAllSent ==
    pipeline.handled = [n \in 1..pipeline.sent |-> n]

C24_QueueBounded ==
    Len(pipeline.queue) < MaxSent

-----------------------------------------------------------------------------
(* utils/buffer_pool.rs : frame buffers                                    *)

\* C25: when a frame is dropped, the buffer drawn from the pool for it is
\* cleared and returned to the pool.
C25_DroppedBufferReturns ==
    [][(pool_run'.live # pool_run.live
            /\ pool_run'.live \subseteq pool_run.live)
       => (/\ Len(pool_run'.pool) = Len(pool_run.pool) + 1
           /\ pool_run'.pool[Len(pool_run'.pool)].len = 0)]_vars
====
